---- MODULE Spec2Model ----
(***************************************************************************)
(* Model of the adaptive API reconciliation core of ShoperCenter:          *)
(* src/modules/shoper.py (endpoint resolver, path addressing, paginated    *)
(* fetch, write-verify) and src/seo_redirects (redirect reconciliation).   *)
(*                                                                         *)
(* Python strings are sequences of one-character strings, so that prefix,  *)
(* suffix, substring, split and case folding are computed as the code      *)
(* computes them.                                                          *)
(***************************************************************************)
EXTENDS Integers, Sequences, FiniteSets, TLC

VARIABLES
    \* --- build_rest_roots -------------------------------------------------
    base_url,      \* the argument of build_rest_roots
    roots,         \* the list returned by the latest call
    prev_roots,    \* the list returned by the call before it
    calls,         \* number of calls made with this base_url
    \* --- flatten / unflatten ----------------------------------------------
    doc,           \* the document given to flatten
    flat,          \* flatten(doc)
    back,          \* unflatten(flat)
    fpc,           \* "start", "flattened", "done"
    \* --- fetch_rows ---------------------------------------------------------
    f_full,        \* the remote resource: number of full pages it holds
    f_short,       \* the remote resource: records on the page after the full ones
    f_limit,       \* the limit argument
    f_roots,       \* build_rest_roots(base_url), iterated by the for loop
    f_root,        \* index in f_roots of the root being tried
    f_page,        \* page
    f_all,         \* all_items, as the sequence of the page chunks it was extended by
    f_data,        \* data, as returned by _try_get_json for the current page
    f_result,      \* the returned list
    f_pc,          \* "get1", "get2", "process", "done" (returned), "raised" (to the caller)
    f_tried,       \* indices of the roots a request was sent to
    f_answered,    \* some request was answered with parsable JSON
    f_faithful,    \* every answer so far was the resource's own page, and no page
                   \* failed after the first one
    \* --- update_product and its caller ---------------------------------------
    u_payload,     \* the payload argument
    u_exists,      \* the remote: ids of the attributes it has
    u_validated,   \* validated_payload
    u_errors,      \* validation_errors, one attribute id per note
    u_attempt,     \* index in attempts of the attempt to send next
    u_sent,        \* the write requests sent, in order
    u_last_code,   \* last_code (0 for None)
    u_get,         \* index of the next URL fetch_item tries, over all roots
    u_updated_product, \* updated_product
    u_changes_failed,  \* changes_failed, as the keys of its entries
    u_ret,         \* the returned (ok, message)
    u_pc,          \* "perm", "validate", "write", "reread", "verify", "returned", "recorded"
    b_updated,     \* updated, the counter of products_bulk_update_json
    b_failed,      \* failed, the counter of products_bulk_update_json
    \* --- sync_redirect_rule ---------------------------------------------------
    rule,          \* the RedirectRule object given to sync_redirect_rule
    saved,         \* the row of the rule in the database
    s_remote,      \* the remote: the redirects it lists, in order
    s_source,      \* source
    s_target,      \* target
    s_target_type, \* target_type
    s_target_object_id, \* target_object_id
    s_payloads,    \* payloads
    s_at,          \* post_redirect: <<root, endpoint, payload>> indices of the next POST
    s_last_error,  \* post_redirect: last_error
    s_posted,      \* the POST requests sent, in order, each as the indices
                   \* <<root, endpoint, payload>> of its URL and body
    s_accepted,    \* the number of POST requests answered with a 2xx status
    s_identified,  \* the number of those whose answer held a redirect id
    s_out,         \* (ok, msg, js) returned by post_redirect
    s_result,      \* the SyncResult returned
    s_pc,          \* "start", "post", "save", "verify", "fail", "returned", "raised"
    \* --- calls of dot_get, extract_items, is_editable_product_field -----------
    c_data,        \* the data or payload argument
    c_path,        \* the path or key argument
    c_out,         \* the returned value
    c_pc           \* "call", "returned"

rootsVars == <<base_url, roots, prev_roots, calls>>
flatVars == <<doc, flat, back, fpc>>
fetchVars == <<f_full, f_short, f_limit, f_roots, f_root, f_page, f_all, f_data, f_result,
               f_pc, f_tried, f_answered, f_faithful>>
updVars == <<u_payload, u_exists, u_validated, u_errors, u_attempt, u_sent, u_last_code,
             u_get, u_updated_product, u_changes_failed, u_ret, u_pc, b_updated,
             b_failed>>
syncVars == <<rule, saved, s_remote, s_source, s_target, s_target_type, s_target_object_id,
              s_payloads, s_at, s_last_error, s_posted, s_accepted,
              s_identified, s_out, s_result, s_pc>>
callVars == <<c_data, c_path, c_out, c_pc>>
vars == <<rootsVars, flatVars, fetchVars, updVars, syncVars, callVars>>

(***************************************************************************)
(* Each specification below exercises one operation; the variables of the  *)
(* other operations then rest at these values.                             *)
(***************************************************************************)
CallIdle ==
    /\ c_data = <<>>
    /\ c_path = <<>>
    /\ c_out = <<>>
    /\ c_pc = "idle"

RootsIdle ==
    /\ base_url = <<>>
    /\ roots = <<>>
    /\ prev_roots = <<>>
    /\ calls = 0

FlatIdle ==
    /\ doc = <<>>
    /\ flat = <<>>
    /\ back = <<>>
    /\ fpc = "idle"

FetchIdle ==
    /\ f_full = 0
    /\ f_short = 0
    /\ f_limit = 0
    /\ f_roots = <<>>
    /\ f_root = 0
    /\ f_page = 0
    /\ f_all = <<>>
    /\ f_data = [t |-> "nodata"]
    /\ f_result = <<>>
    /\ f_pc = "idle"
    /\ f_tried = {}
    /\ f_answered = FALSE
    /\ f_faithful = TRUE

UpdIdle ==
    /\ u_payload = <<>>
    /\ u_exists = {}
    /\ u_validated = <<>>
    /\ u_errors = <<>>
    /\ u_attempt = 0
    /\ u_sent = <<>>
    /\ u_last_code = 0
    /\ u_get = 0
    /\ u_updated_product = [t |-> "none"]
    /\ u_changes_failed = <<>>
    /\ u_ret = [ok |-> FALSE, kind |-> "none"]
    /\ u_pc = "idle"
    /\ b_updated = 0
    /\ b_failed = 0

SyncIdle ==
    /\ rule = <<>>
    /\ saved = <<>>
    /\ s_remote = <<>>
    /\ s_source = <<>>
    /\ s_target = <<>>
    /\ s_target_type = 0
    /\ s_target_object_id = [t |-> "none"]
    /\ s_payloads = <<>>
    /\ s_at = <<0, 0, 0>>
    /\ s_last_error = [kind |-> "none"]
    /\ s_posted = <<>>
    /\ s_accepted = 0
    /\ s_identified = 0
    /\ s_out = [ok |-> FALSE, kind |-> "none"]
    /\ s_result = [ok |-> FALSE, level |-> "none"]
    /\ s_pc = "idle"

(***************************************************************************)
(* Strings                                                                 *)
(***************************************************************************)
Range(s) == {s[i] : i \in 1..Len(s)}

UpperChars == <<"A","B","C","D","E","F","G","H","I","J","K","L","M",
                "N","O","P","Q","R","S","T","U","V","W","X","Y","Z">>
LowerChars == <<"a","b","c","d","e","f","g","h","i","j","k","l","m",
                "n","o","p","q","r","s","t","u","v","w","x","y","z">>

\* str.lower() on one character
LowerChar(c) ==
    IF \E i \in 1..Len(UpperChars) : UpperChars[i] = c
    THEN LowerChars[CHOOSE i \in 1..Len(UpperChars) : UpperChars[i] = c]
    ELSE c

\* str.lower()
Lower(s) == [i \in 1..Len(s) |-> LowerChar(s[i])]

\* str.endswith(suf)
EndsWith(s, suf) ==
    /\ Len(suf) <= Len(s)
    /\ SubSeq(s, Len(s) - Len(suf) + 1, Len(s)) = suf

\* str.startswith(pre)
StartsWith(s, pre) ==
    /\ Len(pre) <= Len(s)
    /\ SubSeq(s, 1, Len(pre)) = pre

\* `sub in s`
Contains(s, sub) ==
    \E i \in 0..(Len(s) - Len(sub)) : SubSeq(s, i + 1, i + Len(sub)) = sub

\* str.rstrip(c) for a single character c
RStrip(s, c) ==
    LET keep == {i \in 1..Len(s) : s[i] # c}
        last == IF keep = {} THEN 0 ELSE CHOOSE i \in keep : \A j \in keep : j <= i
    IN  SubSeq(s, 1, last)

\* str.lstrip(c) for a single character c
LStrip(s, c) ==
    LET keep == {i \in 1..Len(s) : s[i] # c}
        first == IF keep = {} THEN Len(s) + 1
                 ELSE CHOOSE i \in keep : \A j \in keep : i <= j
    IN  SubSeq(s, first, Len(s))

\* s.rsplit(c, 1)[0]: what precedes the last occurrence of c (s itself if none)
RSplitHead(s, c) ==
    LET at == {i \in 1..Len(s) : s[i] = c}
    IN  IF at = {} THEN s
        ELSE SubSeq(s, 1, (CHOOSE i \in at : \A j \in at : j <= i) - 1)

RECURSIVE Concat(_)
\* ''.join(parts)
Concat(parts) ==
    IF parts = <<>> THEN <<>> ELSE Head(parts) \o Concat(Tail(parts))

RECURSIVE Split(_, _)
\* s.split(c) for a single character c
Split(s, c) ==
    LET at == {i \in 1..Len(s) : s[i] = c}
    IN  IF at = {} THEN <<s>>
        ELSE LET i == CHOOSE k \in at : \A j \in at : k <= j
             IN  <<SubSeq(s, 1, i - 1)>> \o Split(SubSeq(s, i + 1, Len(s)), c)

\* [x for x in xs if keep(x)]
RECURSIVE SelectNonEmpty(_)
SelectNonEmpty(xs) ==
    IF xs = <<>> THEN <<>>
    ELSE (IF Head(xs) # <<>> THEN <<Head(xs)>> ELSE <<>>) \o SelectNonEmpty(Tail(xs))

(***************************************************************************)
(* String constants of src/modules/shoper.py:22-65                         *)
(***************************************************************************)
SLASH       == <<"/">>
WEBAPI      == <<"/","w","e","b","a","p","i">>
WEBAPI_     == <<"/","w","e","b","a","p","i","/">>
WEBAPI_REST == <<"/","w","e","b","a","p","i","/","r","e","s","t">>
WEBAPI_REST_ == <<"/","w","e","b","a","p","i","/","r","e","s","t","/">>
API         == <<"/","a","p","i">>
API_        == <<"/","a","p","i","/">>
API_REST    == <<"/","a","p","i","/","r","e","s","t">>
API_REST_   == <<"/","a","p","i","/","r","e","s","t","/">>
REST        == <<"/","r","e","s","t">>
REST_       == <<"/","r","e","s","t","/">>

(***************************************************************************)
(* build_rest_roots                                                        *)
(***************************************************************************)
\* add(candidate) without the `seen` test
add_unchecked(rs, candidate) == Append(rs, candidate)

\* the nested add(): append the candidate unless it was added before
\* (`seen` holds exactly the elements of `roots`)
add(rs, candidate) ==
    IF candidate \in Range(rs) THEN rs ELSE Append(rs, candidate)

\* explicit_roots without the '/rest' branch
explicit_roots_no_rest(u, lowered) ==
    IF EndsWith(lowered, WEBAPI_REST)
    THEN add(add(<<>>, u \o SLASH), RSplitHead(u, "/") \o SLASH)
    ELSE IF EndsWith(lowered, WEBAPI)
    THEN add(add(<<>>, u \o REST_), u \o SLASH)
    ELSE IF EndsWith(lowered, API_REST)
    THEN add(add(<<>>, u \o SLASH), RSplitHead(u, "/") \o SLASH)
    ELSE IF EndsWith(lowered, API)
    THEN add(add(<<>>, u \o REST_), u \o SLASH)
    ELSE <<>>

\* "Prefer explicit API roots first": the if/elif chain on the suffix of the base
explicit_roots(u, lowered) ==
    IF EndsWith(lowered, WEBAPI_REST)
    THEN add(add(<<>>, u \o SLASH), RSplitHead(u, "/") \o SLASH)
    ELSE IF EndsWith(lowered, WEBAPI)
    THEN add(add(<<>>, u \o REST_), u \o SLASH)
    ELSE IF EndsWith(lowered, API_REST)
    THEN add(add(<<>>, u \o SLASH), RSplitHead(u, "/") \o SLASH)
    ELSE IF EndsWith(lowered, API)
    THEN add(add(<<>>, u \o REST_), u \o SLASH)
    ELSE IF EndsWith(lowered, REST)
    THEN add(<<>>, u \o SLASH)
    ELSE <<>>

\* "Generic guesses when base_url does not already include API segment"
generic_roots(rs, u, lowered) ==
    LET r1 == IF /\ ~Contains(lowered, WEBAPI_)
                 /\ ~EndsWith(lowered, WEBAPI)
                 /\ ~Contains(lowered, WEBAPI_REST)
              THEN add(add(rs, u \o WEBAPI_REST_), u \o WEBAPI_)
              ELSE rs
        r2 == IF /\ ~Contains(lowered, API_)
                 /\ ~EndsWith(lowered, API)
                 /\ ~Contains(lowered, API_REST)
              THEN add(add(r1, u \o API_REST_), u \o API_)
              ELSE r1
    IN  IF ~EndsWith(lowered, REST) /\ ~Contains(lowered, REST_)
        THEN add(r2, u \o REST_)
        ELSE r2

build_rest_roots(b) ==
    LET u == RStrip(b, "/")
        lowered == Lower(u)
        normalized_base == u \o SLASH
    IN  add(generic_roots(explicit_roots(u, lowered), u, lowered), normalized_base)

(***************************************************************************)
(* JSON values (Generic Records).  A Python dict is the sequence of its    *)
(* <<key, value>> items in insertion order, with distinct keys.            *)
(***************************************************************************)
IntV(n)  == [t |-> "int", i |-> n]
StrV(s)  == [t |-> "str", s |-> s]
NoneV    == [t |-> "none"]
MapV(d)  == [t |-> "map", m |-> d]
ListV(l) == [t |-> "list", l |-> l]

IsMap(v)  == v.t = "map"
IsList(v) == v.t = "list"

\* `k in d`
DHas(d, k) == \E i \in 1..Len(d) : d[i][1] = k

\* d[k]
DGet(d, k) == d[CHOOSE i \in 1..Len(d) : d[i][1] = k][2]

\* d[k] = v: an existing key keeps its position, a new key is appended
DSet(d, k, v) ==
    IF DHas(d, k)
    THEN [i \in 1..Len(d) |-> IF d[i][1] = k THEN <<k, v>> ELSE d[i]]
    ELSE Append(d, <<k, v>>)

RECURSIVE DUpdate(_, _)
\* d.update(other)
DUpdate(d, other) ==
    IF other = <<>> THEN d
    ELSE DUpdate(DSet(d, Head(other)[1], Head(other)[2]), Tail(other))

DKeys(d) == {d[i][1] : i \in 1..Len(d)}

RECURSIVE Canon(_)
\* the value up to the order of dict items: Python's == on dicts ignores order
Canon(v) ==
    IF IsMap(v)
    THEN [t |-> "map", m |-> [k \in DKeys(v.m) |-> Canon(DGet(v.m, k))]]
    ELSE IF IsList(v)
    THEN [t |-> "list", l |-> [i \in 1..Len(v.l) |-> Canon(v.l[i])]]
    ELSE v

\* a == b on Python values
PyEq(a, b) == Canon(a) = Canon(b)

DOT == <<".">>

RECURSIVE NatStr(_)
\* str(n) for an integer n >= 0
NatStr(n) ==
    LET digits == <<"0","1","2","3","4","5","6","7","8","9">>
    IN  IF n < 10 THEN <<digits[n + 1]>>
        ELSE NatStr(n \div 10) \o <<digits[(n % 10) + 1]>>

\* a float, written as the decimal m / 10^e with e >= 1 fractional digits
FloatV(m, e) == [t |-> "float", m |-> m, e |-> e]

RECURSIVE Pow10(_)
Pow10(e) == IF e = 0 THEN 1 ELSE 10 * Pow10(e - 1)

RECURSIVE NormFloat(_, _)
\* the shortest decimal of the float m / 10^e, keeping one fractional digit
NormFloat(m, e) ==
    IF e > 1 /\ m % 10 = 0 THEN NormFloat(m \div 10, e - 1) ELSE FloatV(m, e)

RECURSIVE ZeroPad(_, _)
\* s padded on the left with zeros up to n characters
ZeroPad(s, n) == IF Len(s) >= n THEN s ELSE ZeroPad(<<"0">> \o s, n)

\* str(x) for a float x >= 0
FloatStr(x) ==
    NatStr(x.m \div Pow10(x.e)) \o DOT \o ZeroPad(NatStr(x.m % Pow10(x.e)), x.e)

RECURSIVE PyRepr(_)
RECURSIVE ReprItems(_)
RECURSIVE ReprElems(_)
\* ', '.join(f"{k!r}: {v!r}") over the items of a dict
ReprItems(d) ==
    IF d = <<>> THEN <<>>
    ELSE <<"'">> \o d[1][1] \o <<"'", ":", " ">> \o PyRepr(d[1][2])
         \o (IF Len(d) = 1 THEN <<>> ELSE <<",", " ">> \o ReprItems(Tail(d)))

\* ', '.join(repr(x)) over the elements of a list
ReprElems(l) ==
    IF l = <<>> THEN <<>>
    ELSE PyRepr(l[1]) \o (IF Len(l) = 1 THEN <<>> ELSE <<",", " ">> \o ReprElems(Tail(l)))

\* repr(x); strings hold no quote or backslash
PyRepr(x) ==
    IF x.t = "int" THEN (IF x.i < 0 THEN <<"-">> \o NatStr(0 - x.i) ELSE NatStr(x.i))
    ELSE IF x.t = "float" THEN FloatStr(x)
    ELSE IF x.t = "str" THEN <<"'">> \o x.s \o <<"'">>
    ELSE IF x.t = "map" THEN <<"{">> \o ReprItems(x.m) \o <<"}">>
    ELSE IF x.t = "list" THEN <<"[">> \o ReprElems(x.l) \o <<"]">>
    ELSE <<"N","o","n","e">>

\* str(x)
PyStr(x) == IF x.t = "str" THEN x.s ELSE PyRepr(x)

RECURSIVE JoinComma(_)
\* ','.join(str(x) for x in xs), xs a list of scalars
JoinComma(xs) ==
    IF xs = <<>> THEN <<>>
    ELSE IF Len(xs) = 1 THEN PyStr(xs[1])
    ELSE PyStr(xs[1]) \o <<",">> \o JoinComma(Tail(xs))

(***************************************************************************)
(* flatten and unflatten                                                   *)
(***************************************************************************)

\* the key of a nested item, with the prefix forgotten
flat_key_no_prefix(prefix, k) == k

\* key = f"{prefix}.{k}" if prefix else k
flat_key(prefix, k) == IF prefix # <<>> THEN prefix \o DOT \o k ELSE k

RECURSIVE flatten(_, _)
RECURSIVE flatten_items(_, _, _)
\* the loop of flatten over obj.items(): out.update(flatten(v, key))
flatten_items(items, prefix, out) ==
    IF items = <<>> THEN out
    ELSE flatten_items(Tail(items), prefix,
            DUpdate(out, flatten(Head(items)[2], flat_key(prefix, Head(items)[1]))))

flatten(obj, prefix) ==
    IF IsMap(obj) THEN flatten_items(obj.m, prefix, <<>>)
    ELSE IF IsList(obj)
    THEN <<<<prefix, StrV(JoinComma(SubSeq(obj.l, 1, IF Len(obj.l) < 5 THEN Len(obj.l) ELSE 5)))>>>>
    ELSE <<<<prefix, obj>>>>

RECURSIVE set_path_drop(_, _, _)
\* the inner loop with a key dropped when an intermediate part holds a
\* value that is not a dict
set_path_drop(cur, parts, value) ==
    IF parts = <<>> THEN cur
    ELSE IF Len(parts) = 1 THEN DSet(cur, parts[1], value)
    ELSE LET part == Head(parts)
             child == IF DHas(cur, part) THEN DGet(cur, part).m ELSE <<>>
         IN  IF DHas(cur, part) /\ ~IsMap(DGet(cur, part)) THEN cur
             ELSE LET sub == set_path_drop(child, Tail(parts), value)
                  IN  IF sub = child /\ DHas(cur, part) THEN cur
                      ELSE DSet(cur, part, MapV(sub))

RECURSIVE set_path(_, _, _)
\* the inner loop of unflatten: walk `parts` from dict `cur`, creating (or
\* replacing a non-dict value by) an empty dict at every intermediate part, and
\* store the value at the last part.  `cur` is always a dict, so the two
\* non-dict branches of the code are never taken.
set_path(cur, parts, value) ==
    IF parts = <<>> THEN cur
    ELSE IF Len(parts) = 1 THEN DSet(cur, parts[1], value)
    ELSE LET part == Head(parts)
             child == IF DHas(cur, part) /\ IsMap(DGet(cur, part))
                      THEN DGet(cur, part).m
                      ELSE <<>>
         IN  DSet(cur, part, MapV(set_path(child, Tail(parts), value)))

RECURSIVE unflatten_items(_, _)
\* the loop of unflatten over dotted.items()
unflatten_items(items, root) ==
    IF items = <<>> THEN root
    ELSE unflatten_items(Tail(items),
            set_path(root, SelectNonEmpty(Split(Head(items)[1], ".")), Head(items)[2]))

\* unflatten(dotted): the nested dict (as its item sequence)
unflatten(dotted) == unflatten_items(dotted, <<>>)

(***************************************************************************)
(* Specification SpecFlat: flatten then unflatten on bounded documents     *)
(***************************************************************************)
\* documents have at most MaxEntries key/value items in all, at any depth
MaxEntries == 3

DocKeys == { <<"a">>, <<"b">>, <<>>, <<"a",".","b">> }
DocScalars == { IntV(1), StrV(<<"x">>) }

RECURSIVE MapsN(_, _)
RECURSIVE ValsN(_)
\* the dicts with keys from Ks at the top and exactly n items in all
MapsN(Ks, n) ==
    IF n = 0 THEN {<<>>}
    ELSE UNION { UNION { { <<<<k, v>>>> \o rest :
                             v \in ValsN(m), rest \in MapsN(Ks \ {k}, n - 1 - m) }
                         : m \in 0..(n - 1) }
                 : k \in Ks }

\* the values holding exactly m items: a scalar or the empty dict for m = 0
ValsN(m) ==
    IF m = 0 THEN DocScalars \cup {MapV(<<>>)}
    ELSE {MapV(d) : d \in MapsN(DocKeys, m)}

Docs == UNION {MapsN(DocKeys, n) : n \in 0..MaxEntries}

InitFlat ==
    /\ doc \in Docs
    /\ flat = <<>>
    /\ back = <<>>
    /\ fpc = "start"
    /\ CallIdle
    /\ RootsIdle
    /\ FetchIdle
    /\ UpdIdle
    /\ SyncIdle

CallFlatten ==
    /\ fpc = "start"
    /\ flat' = flatten(MapV(doc), <<>>)
    /\ fpc' = "flattened"
    /\ UNCHANGED <<doc, back, callVars, rootsVars, fetchVars, updVars, syncVars>>

CallUnflatten ==
    /\ fpc = "flattened"
    /\ back' = unflatten(flat)
    /\ fpc' = "done"
    /\ UNCHANGED <<doc, flat, callVars, rootsVars, fetchVars, updVars, syncVars>>

NextFlat == CallFlatten \/ CallUnflatten

SpecFlat == InitFlat /\ [][NextFlat]_vars

(***************************************************************************)
(* HTTP GET through _try_get_json                                          *)
(***************************************************************************)
\* what _try_get_json returns as data when the request yields no JSON value
NoData == [t |-> "nodata"]

\* the ways a GET ends without data: a status other than 200, a body that is
\* not JSON, a timeout, a connection error, any other exception, and the JSON
\* body `null` (resp.json() is None)
FailKinds == {"http_error", "bad_json", "timeout", "connection_error",
              "other_error", "null_body"}

FailResp(why) == [kind |-> "fail", why |-> why]
JsonResp(data) == [kind |-> "json", data |-> data]

\* _try_get_json(url, token)[0] for a request answered by resp
try_get_json(resp) == IF resp.kind = "json" THEN resp.data ELSE NoData

(***************************************************************************)
(* fetch_rows.  A page payload is [isdict, n, pages, page]: whether the     *)
(* JSON value is a dict, the number n of records extract_items finds in it, *)
(* and (for a dict) the values under 'pages' and 'page'.  The records of a  *)
(* page are kept as one chunk [root, page, n]: records n of them, in the    *)
(* order served, obtained from that root for that page.                     *)
(***************************************************************************)
per_page == 50

\* a safety limit that lets one more page through
max_pages_one_more == 100 + 1

max_pages == 100

\* bool(v) for None, int and str
Truthy(v) ==
    IF v.t = "int" THEN v.i # 0
    ELSE IF v.t = "str" THEN v.s # <<>>
    ELSE IF v.t = "float" THEN v.m # 0
    ELSE IF v.t = "map" THEN v.m # <<>>
    ELSE IF v.t = "list" THEN v.l # <<>>
    ELSE FALSE

CharOrder == <<"0","1","2","3","4","5","6","7","8","9">>
CharRank(c) == CHOOSE i \in 1..Len(CharOrder) : CharOrder[i] = c

RECURSIVE StrLess(_, _)
\* a < b on strings of digits (lexicographic)
StrLess(a, b) ==
    IF b = <<>> THEN FALSE
    ELSE IF a = <<>> THEN TRUE
    ELSE IF a[1] = b[1] THEN StrLess(Tail(a), Tail(b))
    ELSE CharRank(a[1]) < CharRank(b[1])

\* a >= b is defined between two ints and between two strs; Python raises
\* TypeError for an int against a str
Comparable(a, b) == a.t = b.t
PyGE(a, b) == IF a.t = "int" THEN a.i >= b.i ELSE ~StrLess(a.s, b.s)

\* all_items[:limit] with the bound off by one
truncate_one_more(chunks, limit) ==
    LET RECURSIVE Take(_, _)
        Take(cs, n) ==
            IF cs = <<>> \/ n <= 0 THEN <<>>
            ELSE IF Head(cs).n <= n THEN <<Head(cs)>> \o Take(Tail(cs), n - Head(cs).n)
            ELSE <<[Head(cs) EXCEPT !.n = n]>>
    IN  IF limit > 0 THEN Take(chunks, limit + 1) ELSE chunks

\* all_items[:limit] if limit > 0 else all_items
truncate(chunks, limit) ==
    LET RECURSIVE Take(_, _)
        Take(cs, n) ==
            IF cs = <<>> \/ n <= 0 THEN <<>>
            ELSE IF Head(cs).n <= n THEN <<Head(cs)>> \o Take(Tail(cs), n - Head(cs).n)
            ELSE <<[Head(cs) EXCEPT !.n = n]>>
    IN  IF limit > 0 THEN Take(chunks, limit) ELSE chunks

RECURSIVE ItemCount(_)
\* len() of a list kept as chunks
ItemCount(chunks) ==
    IF chunks = <<>> THEN 0 ELSE Head(chunks).n + ItemCount(Tail(chunks))

\* the pagination test of lines 845-850: "stop", "go" or "TypeError"
pagination_check(data) ==
    IF ~data.isdict THEN "go"
    ELSE IF ~Truthy(data.pages) THEN "go"
    ELSE IF ~Truthy(data.page) THEN "go"
    ELSE IF ~Comparable(data.page, data.pages) THEN "TypeError"
    ELSE IF PyGE(data.page, data.pages) THEN "stop"
    ELSE "go"

(***************************************************************************)
(* The remote resource of SpecFetch: f_full full pages of per_page records  *)
(* and then f_short records; whatever the resource holds, the remote may    *)
(* answer any request in any way.                                           *)
(***************************************************************************)
TotalPages(full, short) == IF short = 0 THEN full ELSE full + 1

\* the records the resource holds on page pg
PageSize(full, short, pg) ==
    IF pg <= full THEN per_page ELSE IF pg = full + 1 THEN short ELSE 0

\* the JSON answers the remote may give to a request for page pg
Payloads(full, short, pg) ==
    LET sizes == {0, PageSize(full, short, pg)}
        pagesVals == {NoneV, IntV(pg), IntV(TotalPages(full, short)),
                      StrV(NatStr(TotalPages(full, short)))}
        pageVals == {NoneV, IntV(pg), StrV(NatStr(pg))}
    IN  {[isdict |-> FALSE, n |-> n, pages |-> NoneV, page |-> NoneV] : n \in sizes}
        \cup {[isdict |-> TRUE, n |-> n, pages |-> a, page |-> b] :
                 n \in sizes, a \in pagesVals, b \in pageVals}

Responses(full, short, pg) ==
    {FailResp(w) : w \in FailKinds} \cup {JsonResp(d) : d \in Payloads(full, short, pg)}

\* the answer is the resource's own page pg, with no pagination metadata or
\* with the true page number and page count
FaithfulPayload(d, full, short, pg) ==
    /\ d.n = PageSize(full, short, pg)
    /\ \/ d.pages = NoneV /\ d.page = NoneV
       \/ d.isdict /\ d.pages = IntV(TotalPages(full, short)) /\ d.page = IntV(pg)

FullPageChoices == {0, 1, 2, max_pages - 1, max_pages}
ShortPageChoices == {0, 1, per_page - 1}
LimitChoices == {0, 1, per_page + 1, max_pages * per_page + 1}
FetchBases == { <<"s">> }

InitFetch ==
    /\ f_full \in FullPageChoices
    /\ f_short \in ShortPageChoices
    /\ f_limit \in LimitChoices
    /\ f_roots \in {build_rest_roots(b) : b \in FetchBases}
    /\ f_root = 1
    /\ f_page = 1
    /\ f_all = <<>>
    /\ f_data = NoData
    /\ f_result = <<>>
    /\ f_pc = "get1"
    /\ f_tried = {}
    /\ f_answered = FALSE
    /\ f_faithful = TRUE
    /\ CallIdle
    /\ RootsIdle
    /\ FlatIdle
    /\ UpdIdle
    /\ SyncIdle

\* leaving the while loop, go on with the next root whatever was accumulated
AfterWhile_tries_next_root ==
    IF f_root < Len(f_roots)
    THEN /\ f_root' = f_root + 1
         /\ f_pc' = "get1"
         /\ UNCHANGED f_result
    ELSE /\ f_pc' = "done"
         /\ f_result' = truncate(f_all, f_limit)
         /\ UNCHANGED f_root

\* leave the while loop of the current root: return what was accumulated, or
\* go on with the next root, or (after the last root) return []
AfterWhile ==
    IF f_all # <<>>
    THEN /\ f_pc' = "done"
         /\ f_result' = truncate(f_all, f_limit)
         /\ UNCHANGED f_root
    ELSE IF f_root < Len(f_roots)
    THEN /\ f_root' = f_root + 1
         /\ f_pc' = "get1"
         /\ UNCHANGED f_result
    ELSE /\ f_pc' = "done"
         /\ f_result' = <<>>
         /\ UNCHANGED f_root

Return(list) ==
    /\ f_pc' = "done"
    /\ f_result' = list
    /\ UNCHANGED f_root

\* the while condition holds: GET the first candidate URL of the page
GetFirstCandidate ==
    /\ f_pc = "get1"
    /\ f_page <= max_pages
    /\ \E r \in Responses(f_full, f_short, f_page) :
          /\ f_data' = try_get_json(r)
          /\ f_pc' = IF try_get_json(r) # NoData THEN "process" ELSE "get2"
    /\ f_tried' = f_tried \cup {f_root}
    /\ UNCHANGED <<f_full, f_short, f_limit, f_roots, f_root, f_page, f_all,
                   f_result, f_answered, f_faithful, callVars, rootsVars, flatVars, updVars, syncVars>>

\* the first candidate gave no data: GET the second candidate URL
GetSecondCandidate ==
    /\ f_pc = "get2"
    /\ \E r \in Responses(f_full, f_short, f_page) : f_data' = try_get_json(r)
    /\ f_pc' = "process"
    /\ UNCHANGED <<f_full, f_short, f_limit, f_roots, f_root, f_page, f_all,
                   f_result, f_tried, f_answered, f_faithful, callVars, rootsVars, flatVars, updVars, syncVars>>

\* the rest of the loop body, lines 824-856
ProcessPage ==
    /\ f_pc = "process"
    /\ LET data == f_data
           extended == Append(f_all, [root |-> f_root, page |-> f_page, n |-> data.n])
       IN  /\ f_answered' = (f_answered \/ data # NoData)
           /\ f_faithful' = (/\ f_faithful
                             /\ data = NoData => ~f_answered
                             /\ data # NoData =>
                                  FaithfulPayload(data, f_full, f_short, f_page))
           /\ IF data = NoData
              THEN IF f_page = 1
                   THEN AfterWhile /\ UNCHANGED <<f_page, f_all>>
                   ELSE Return(truncate(f_all, f_limit)) /\ UNCHANGED <<f_page, f_all>>
              ELSE IF data.n = 0
              THEN Return(truncate(f_all, f_limit)) /\ UNCHANGED <<f_page, f_all>>
              ELSE IF f_limit > 0 /\ ItemCount(extended) >= f_limit
              THEN Return(truncate(extended, f_limit))
                   /\ f_all' = extended /\ UNCHANGED f_page
              ELSE IF pagination_check(data) = "TypeError"
              THEN /\ f_pc' = "raised"
                   /\ f_all' = extended
                   /\ UNCHANGED <<f_page, f_result, f_root>>
              ELSE IF pagination_check(data) = "stop" \/ data.n < per_page
              THEN Return(truncate(extended, f_limit))
                   /\ f_all' = extended /\ UNCHANGED f_page
              ELSE /\ f_page' = f_page + 1
                   /\ f_pc' = "get1"
                   /\ f_all' = extended
                   /\ UNCHANGED <<f_result, f_root>>
    /\ f_data' = NoData
    /\ UNCHANGED <<f_full, f_short, f_limit, f_roots, f_tried, callVars, rootsVars, flatVars, updVars, syncVars>>

\* the while condition fails: the safety cap of max_pages pages is reached
CapReached ==
    /\ f_pc = "get1"
    /\ f_page > max_pages
    /\ AfterWhile
    /\ UNCHANGED <<f_full, f_short, f_limit, f_roots, f_page, f_all, f_data, f_tried,
                   f_answered, f_faithful, callVars, rootsVars, flatVars, updVars, syncVars>>

NextFetch == GetFirstCandidate \/ GetSecondCandidate \/ ProcessPage \/ CapReached

SpecFetch == InitFetch /\ [][NextFetch]_vars

(***************************************************************************)
(* Specification SpecRoots: build_rest_roots applied to bounded base URLs  *)
(***************************************************************************)
\* base URLs are concatenations of at most MaxFrags of these fragments
MaxFrags == 4

Frags == { <<"s">>, <<"x">>, SLASH, WEBAPI, API, REST, <<"/","R","E","S","T">>,
           <<"/","W","e","b","A","p","i">> }

RECURSIVE FragSeqs(_)
FragSeqs(n) ==
    IF n = 0 THEN {<<>>}
    ELSE LET shorter == FragSeqs(n - 1)
         IN  shorter \cup {s \o f : s \in {t \in shorter : TRUE}, f \in Frags}

BaseUrls == FragSeqs(MaxFrags)

InitRoots ==
    /\ base_url \in BaseUrls
    /\ roots = <<>>
    /\ prev_roots = <<>>
    /\ calls = 0
    /\ CallIdle
    /\ FlatIdle
    /\ FetchIdle
    /\ UpdIdle
    /\ SyncIdle

\* one call of build_rest_roots(base_url); the second call repeats the first
CallBuildRestRoots ==
    /\ calls < 2
    /\ calls' = calls + 1
    /\ prev_roots' = roots
    /\ roots' = build_rest_roots(base_url)
    /\ UNCHANGED <<base_url, callVars, flatVars, fetchVars, updVars, syncVars>>

NextRoots == CallBuildRestRoots

SpecRoots == InitRoots /\ [][NextRoots]_vars

(***************************************************************************)
(* Claims about build_rest_roots (checked under SpecRoots)                 *)
(***************************************************************************)
Stripped == RStrip(base_url, "/")
NormalizedBase == Stripped \o SLASH

EndsInRestSuffix ==
    \/ EndsWith(Lower(Stripped), WEBAPI_REST)
    \/ EndsWith(Lower(Stripped), API_REST)
    \/ EndsWith(Lower(Stripped), REST)

EndsInBareApiSuffix ==
    \/ EndsWith(Lower(Stripped), WEBAPI)
    \/ EndsWith(Lower(Stripped), API)

\* C8 as stated: for every base URL that ends (ignoring case and trailing
\* slashes) in /webapi/rest, /webapi, /api/rest, /api or /rest, the first root
\* is the base URL normalized to one trailing slash.
C8_FirstRootIsBase ==
    (calls >= 1 /\ (EndsInRestSuffix \/ EndsInBareApiSuffix))
        => roots[1] = NormalizedBase

\* C8 amended: a base URL ending in /webapi/rest, /api/rest or /rest comes first
\* itself (normalized to one trailing slash); for a base URL ending in /webapi
\* or /api the first root is the base with '/rest/' appended and the normalized
\* base URL is the second root.
C8_FirstRootAmended ==
    calls >= 1 =>
        /\ EndsInRestSuffix => roots[1] = NormalizedBase
        /\ EndsInBareApiSuffix =>
              /\ roots[1] = Stripped \o REST_
              /\ roots[2] = NormalizedBase

\* a call on a base URL ending in /webapi that had trailing slashes and upper case
C8_Witness ==
    /\ calls >= 1
    /\ EndsWith(Lower(Stripped), WEBAPI)
    /\ Stripped # base_url
    /\ Lower(Stripped) # Stripped

\* C9: for every base URL the returned list is non-empty, has no duplicate
\* entry, every entry ends with '/', it contains the base URL normalized to one
\* trailing slash, and a second call with the same base URL returns the same list.
C9_RootsWellFormed ==
    calls >= 1 =>
        /\ roots # <<>>
        /\ \A i, j \in 1..Len(roots) : roots[i] = roots[j] => i = j
        /\ \A i \in 1..Len(roots) : EndsWith(roots[i], SLASH)
        /\ NormalizedBase \in Range(roots)
        /\ calls = 2 => roots = prev_roots

\* two calls on a base URL ending in /rest, where the explicit branch and the
\* final fallback both offer the normalized base
C9_Witness ==
    /\ calls = 2
    /\ EndsWith(Lower(Stripped), REST)
    /\ Len(roots) >= 3

(***************************************************************************)
(* Claims about flatten / unflatten (checked under SpecFlat)               *)
(***************************************************************************)
RECURSIVE KeysPlain(_)
\* every key, at every depth, is non-empty and holds no '.'
KeysPlain(d) ==
    \A i \in 1..Len(d) :
        /\ d[i][1] # <<>>
        /\ "." \notin Range(d[i][1])
        /\ IsMap(d[i][2]) => KeysPlain(d[i][2].m)

RECURSIVE NoEmptyNested(_)
\* no nested dict is empty
NoEmptyNested(d) ==
    \A i \in 1..Len(d) :
        IsMap(d[i][2]) => (d[i][2].m # <<>> /\ NoEmptyNested(d[i][2].m))

\* C10 as stated: for every document of nested maps and scalars, empty nested
\* maps included, unflatten(flatten(document)) equals the document (stated here
\* for the documents whose keys are non-empty and hold no '.').
C10_RoundTrip ==
    (fpc = "done" /\ KeysPlain(doc)) => PyEq(MapV(back), MapV(doc))

\* C10 amended: unflatten(flatten(document)) equals the document for every
\* document of nested maps and scalars in which no nested map is empty and
\* every key is non-empty and contains no '.'.
C10_RoundTripAmended ==
    (fpc = "done" /\ KeysPlain(doc) /\ NoEmptyNested(doc))
        => PyEq(MapV(back), MapV(doc))

\* a round trip of a document with a scalar beside a non-empty nested map
C10_Witness ==
    /\ fpc = "done"
    /\ KeysPlain(doc)
    /\ NoEmptyNested(doc)
    /\ Len(doc) >= 2
    /\ \E i \in 1..Len(doc) : IsMap(doc[i][2])

(***************************************************************************)
(* Claims about unflatten on keys that collide                             *)
(***************************************************************************)
Missing == [t |-> "missing"]

RECURSIVE WalkParts(_, _)
\* the value found from `value` along `parts`, Missing when there is none
WalkParts(value, parts) ==
    IF parts = <<>> THEN value
    ELSE IF IsMap(value) /\ DHas(value.m, Head(parts))
    THEN WalkParts(DGet(value.m, Head(parts)), Tail(parts))
    ELSE Missing

PartsOf(j) == SelectNonEmpty(Split(flat[j][1], "."))

\* the nested dict before and after the j-th dotted key was processed
RootBefore(j) == MapV(unflatten(SubSeq(flat, 1, j - 1)))
RootAfter(j) == MapV(unflatten(SubSeq(flat, 1, j)))

\* an intermediate segment of the j-th key holds a value that is not a map
Collides(j) ==
    \E n \in 1..(Len(PartsOf(j)) - 1) :
        LET held == WalkParts(RootBefore(j), SubSeq(PartsOf(j), 1, n))
        IN  held # Missing /\ ~IsMap(held)

\* C28 as stated: a dotted key whose intermediate segment already holds a
\* non-map value is dropped, and the value held there is kept.
C28_CollidingKeyDropped ==
    fpc = "done" =>
        \A j \in 1..Len(flat) : Collides(j) => RootAfter(j) = RootBefore(j)

\* C28 amended: a dotted key whose intermediate segment already holds a
\* non-map value is stored all the same: the value held at the segment is
\* replaced by a map, and the value of the dotted key is found along its path.
C28_CollidingKeyReplaces ==
    fpc = "done" =>
        \A j \in 1..Len(flat) :
           Collides(j) =>
              /\ WalkParts(RootAfter(j), PartsOf(j)) = flat[j][2]
              /\ \A n \in 1..(Len(PartsOf(j)) - 1) :
                    IsMap(WalkParts(RootAfter(j), SubSeq(PartsOf(j), 1, n)))

\* 'a' holds a scalar when 'a.b' is processed, and ends as the map holding b
C28_Witness ==
    /\ fpc = "done"
    /\ Len(flat) = 2
    /\ flat[1][1] = <<"a">>
    /\ flat[2][1] = <<"a", ".", "b">>
    /\ Collides(2)
    /\ back = << <<<<"a">>, MapV(<< <<<<"b">>, flat[2][2]>> >>)>> >>

(***************************************************************************)
(* Claims about fetch_rows (checked under SpecFetch)                       *)
(***************************************************************************)
\* the records the resource holds, in page order, as served by root w
ResourceRecords(w) ==
    [pg \in 1..f_full |-> [root |-> w, page |-> pg, n |-> per_page]]
        \o (IF f_short > 0
            THEN <<[root |-> w, page |-> f_full + 1, n |-> f_short]>>
            ELSE <<>>)

ResourceTotal == f_full * per_page + f_short

\* the records of r are the first records of d, in the same order
IsLeadingPart(r, d) ==
    /\ Len(r) <= Len(d)
    /\ \A i \in 1..Len(r) :
          /\ r[i].root = d[i].root
          /\ r[i].page = d[i].page
          /\ r[i].n >= 1
          /\ IF i < Len(r) THEN r[i].n = d[i].n ELSE r[i].n <= d[i].n

\* exactly the first `limit` records of the resource, all of them for limit = 0
\* or a limit beyond the total
IsExpectedResult ==
    /\ IsLeadingPart(f_result, ResourceRecords(f_root))
    /\ ItemCount(f_result) =
          IF f_limit = 0 \/ f_limit >= ResourceTotal THEN ResourceTotal ELSE f_limit

\* a root worked: it answered, every answer was the resource's own page and no
\* page failed once a root had answered
WorkingRoot == f_answered /\ f_faithful

\* C6 as stated: against a working root serving k full pages and then one short
\* page, limit=0 returns the concatenation of pages 1..k+1 in page order and
\* 0 < limit=N < total returns the first N records; for every limit > 0 the
\* result has at most `limit` records.
C6_AllPagesInOrder ==
    f_pc = "done" =>
        /\ f_limit > 0 => ItemCount(f_result) <= f_limit
        /\ (WorkingRoot /\ f_short >= 1) => IsExpectedResult

\* C6 amended: the same, for a resource of at most max_pages pages in all
\* (k full pages with k + 1 <= 100): pages beyond the cap are never requested.
C6_AllPagesInOrderAmended ==
    f_pc = "done" =>
        /\ f_limit > 0 => ItemCount(f_result) <= f_limit
        /\ (WorkingRoot /\ TotalPages(f_full, f_short) <= max_pages)
              => IsExpectedResult

\* two full pages and a short one, served by a root after the first failed,
\* cut to a limit that falls inside the second page
C6_Witness ==
    /\ f_pc = "done"
    /\ WorkingRoot
    /\ f_root > 1
    /\ f_full = 2
    /\ f_short = per_page - 1
    /\ f_limit = per_page + 1
    /\ ItemCount(f_result) = per_page + 1
    /\ Len(f_result) = 2

\* C7: fetch_rows never raises to the caller, and it returns an empty result
\* only after every candidate root has been tried and none yielded a record.
C7_EmptyOnlyWhenExhausted ==
    /\ f_pc # "raised"
    /\ (f_pc = "done" /\ f_result = <<>>) =>
          (f_tried = 1..Len(f_roots) /\ f_all = <<>>)

\* the page in hand failed outright: no candidate URL gave parsable JSON
PageFailed == f_pc = "process" /\ f_data = NoData

\* C17: when the first page on a root fails outright, the next root is tried
\* from page 1; once a root has yielded a record, no request is sent to a
\* later root, and a later failure on that root returns the records
\* accumulated so far.
C17_RootFallback ==
    [][/\ (PageFailed /\ f_page = 1 /\ f_root < Len(f_roots)) =>
             (f_root' = f_root + 1 /\ f_page' = 1 /\ f_pc' = "get1")
       /\ f_all # <<>> => (f_root' = f_root /\ f_tried' \subseteq f_tried \cup {f_root})
       /\ (PageFailed /\ f_all # <<>>) => (f_pc' = "done" /\ f_result' = f_all)]_vars

\* the first root failed on page 1, the second root served one full page and
\* then no further one, and that page was returned
C17_Witness ==
    /\ f_pc = "done"
    /\ f_tried = {1, 2}
    /\ f_root = 2
    /\ f_page = 2
    /\ f_limit = 0
    /\ ItemCount(f_all) = per_page
    /\ f_result = f_all


\* fetch_rows runs without interruption, a step that can be taken is taken,
\* on a resource of max_pages full pages or of one record, without limit
InitFetchFair ==
    /\ InitFetch
    /\ <<f_full, f_short>> \in {<<max_pages, 0>>, <<0, 1>>}
    /\ f_limit = 0

SpecFetchFair == InitFetchFair /\ [][NextFetch]_vars /\ WF_vars(NextFetch)

\* C18: fetch_rows terminates for every remote behaviour, and never requests
\* a page number greater than 100.
C18_TerminatesWithinCap ==
    /\ [](f_pc \in {"get2", "process"} => f_page <= 100)
    /\ <>(f_pc \in {"done", "raised"})

\* the remote served a full page without pagination metadata for every
\* request, and the call returned after page 100
C18_Witness ==
    /\ f_pc = "done"
    /\ f_page = 101
    /\ Len(f_all) = 100
    /\ ItemCount(f_result) = 100 * per_page


(***************************************************************************)
(* Editability rules of product fields                                     *)
(***************************************************************************)
\* a Python string literal as the sequence of its characters
Chars(s) == [i \in 1..Len(s) |-> SubSeq(s, i, i)]

\* str.strip(c) for a single character c
Strip(s, c) == LStrip(RStrip(s, c), c)

_READONLY_PRODUCTS_EXACT ==
    { Chars(s) : s \in
        { "id", "product_id", "stock_id", "translation_id", "gfx_id",
          "add_date", "edit_date", "created", "created_at", "date_add", "date_added",
          "modified", "updated_at", "date_update", "date_updated", "date_mod",
          "date_modify",
          "calculated_availability_id", "permalink", "isdefault", "lang_id",
          "popularity", "views", "rating", "votes", "type", "group_id",
          "category_tree_id", "promo_price", "loyalty_score", "loyalty_price",
          "in_loyalty", "bestseller", "newproduct", "extended", "default",
          "weight_type", "sold" } }

\* the first binding of the name, which the module overwrites while loading
_READONLY_PRODUCTS_PREFIXES_first ==
    { Chars(s) : s \in { "main_image", "children" } }

\* the binding in force when the functions run
_READONLY_PRODUCTS_PREFIXES ==
    { Chars(s) : s \in
        { "images", "attachments", "variants", "links", "stats", "reviews" } }

\* the binding in force when the functions run (the second one of the module)
_EDITABLE_PRODUCTS_FIELDS ==
    { Chars(s) : s \in
        { "producer_id", "category_id", "unit_id", "other_price", "code", "tax_id",
          "dimension_w", "dimension_h", "dimension_l", "ean", "pkwiu",
          "is_product_of_day", "tags", "tag_id", "collections", "vol_weight",
          "gauge_id", "currency_id", "categories", "unit_price_calculation",
          "feeds_exludes",
          "stock.price", "stock.stock", "stock.stock_relative", "stock.warn_level",
          "stock.sold_relative", "stock.weight", "stock.availability_id",
          "stock.delivery_id", "stock.gfx_id", "stock.package",
          "stock.price_wholesale", "stock.price_special",
          "stock.calculation_unit_id", "stock.calculation_unit_ratio",
          "stock.historical_lowest_price",
          "stock.wholesale_historical_lowest_price",
          "stock.special_historical_lowest_price",
          "stock.additional_codes.bloz12", "stock.additional_codes.bloz7",
          "stock.additional_codes.code39", "stock.additional_codes.gtu",
          "stock.additional_codes.isbn", "stock.additional_codes.kgo",
          "stock.additional_codes.producer", "stock.additional_codes.warehouse",
          "translations.pl_PL.name", "translations.pl_PL.short_description",
          "translations.pl_PL.description", "translations.pl_PL.active",
          "translations.pl_PL.seo_title", "translations.pl_PL.seo_description",
          "translations.pl_PL.seo_keywords", "translations.pl_PL.seo_url",
          "translations.pl_PL.order", "translations.pl_PL.main_page",
          "translations.pl_PL.main_page_order",
          "attributes",
          "safety_information.gpsr_producer_id",
          "safety_information.gpsr_importer_id",
          "safety_information.gpsr_responsible_id",
          "safety_information.gpsr_certificates",
          "related",
          "additional_bloz12", "additional_bloz7", "additional_code39",
          "additional_gtu", "additional_isbn", "additional_kgo",
          "additional_producer", "additional_warehouse" } }

is_readonly_product_key(key) ==
    LET k == Lower(Strip(key, "."))
        parts == SelectNonEmpty(Split(k, "."))
    IN  \/ \E i \in 1..Len(parts) : parts[i] \in _READONLY_PRODUCTS_EXACT
        \/ \E pref \in _READONLY_PRODUCTS_PREFIXES :
              StartsWith(k, pref \o DOT) \/ k = pref
        \/ StartsWith(k, Chars("date_"))
        \/ StartsWith(k, Chars("add_date"))
        \/ StartsWith(k, Chars("edit_date"))

TranslationFields ==
    { Chars(s) : s \in
        { "name", "short_description", "description", "active",
          "seo_title", "seo_description", "seo_keywords", "seo_url",
          "order", "main_page", "main_page_order" } }

StockFields ==
    { Chars(s) : s \in
        { "price", "stock", "stock_relative", "warn_level", "sold_relative",
          "weight", "availability_id", "delivery_id", "gfx_id", "package",
          "price_wholesale", "price_special", "calculation_unit_id",
          "calculation_unit_ratio", "historical_lowest_price",
          "wholesale_historical_lowest_price", "special_historical_lowest_price",
          "code", "ean" } }

system_keywords ==
    { Chars(s) : s \in { "_id", "calculated_", "system_", "auto_", "comp_" } }

\* a policy that lets every field through
is_editable_always(key) == TRUE

is_editable_product_field(key) ==
    LET k == Lower(Strip(key, "."))
    IN  IF is_readonly_product_key(key) THEN FALSE
        ELSE IF k \in _EDITABLE_PRODUCTS_FIELDS THEN TRUE
        ELSE IF /\ StartsWith(k, Chars("translations."))
                /\ \E field \in TranslationFields : EndsWith(k, DOT \o field)
        THEN TRUE
        ELSE IF /\ StartsWith(k, Chars("stock."))
                /\ \E field \in StockFields : EndsWith(k, DOT \o field)
        THEN TRUE
        ELSE IF StartsWith(k, Chars("stock.additional_codes.")) THEN TRUE
        ELSE IF StartsWith(k, Chars("stock.warehouses.")) THEN TRUE
        ELSE IF StartsWith(k, Chars("attributes.")) THEN TRUE
        ELSE IF StartsWith(k, Chars("safety_information.")) THEN TRUE
        ELSE IF StartsWith(k, Chars("special_offer.")) THEN TRUE
        ELSE IF /\ \E keyword \in system_keywords : Contains(k, keyword)
                /\ k \notin _EDITABLE_PRODUCTS_FIELDS
        THEN FALSE
        ELSE TRUE

(***************************************************************************)
(* Number literals: int(s) and float(s) on strings.  Literals with an      *)
(* exponent, an underscore, "inf" or "nan" are outside the strings used.   *)
(***************************************************************************)
Digits == <<"0","1","2","3","4","5","6","7","8","9">>
IsDigit(c) == \E i \in 1..Len(Digits) : Digits[i] = c
DigitVal(c) == (CHOOSE i \in 1..Len(Digits) : Digits[i] = c) - 1

WhiteSpace == {" ", "\t", "\n", "\r"}

\* str.strip()
StripWs(s) ==
    LET keep == {i \in 1..Len(s) : s[i] \notin WhiteSpace}
    IN  IF keep = {} THEN <<>>
        ELSE SubSeq(s, CHOOSE i \in keep : \A j \in keep : i <= j,
                       CHOOSE i \in keep : \A j \in keep : j <= i)

RECURSIVE DigitsVal(_)
DigitsVal(ds) ==
    IF ds = <<>> THEN 0 ELSE 10 * DigitsVal(SubSeq(ds, 1, Len(ds) - 1)) + DigitVal(ds[Len(ds)])

Signed(s) == s # <<>> /\ s[1] \in {"+", "-"}
Unsigned(s) == IF Signed(s) THEN Tail(s) ELSE s
AllDigits(s) == \A i \in 1..Len(s) : IsDigit(s[i])

\* int(s) does not raise ValueError
IsIntLiteral(s) ==
    LET u == Unsigned(StripWs(s)) IN u # <<>> /\ AllDigits(u)

\* int(s)
IntOf(s) ==
    LET u == StripWs(s)
        n == DigitsVal(Unsigned(u))
    IN  IF Signed(u) /\ u[1] = "-" THEN 0 - n ELSE n

\* float(s) does not raise ValueError
IsFloatLiteral(s) ==
    LET u == Unsigned(StripWs(s))
        ps == Split(u, ".")
    IN  /\ Len(ps) <= 2
        /\ \A i \in 1..Len(ps) : AllDigits(ps[i])
        /\ \E i \in 1..Len(ps) : ps[i] # <<>>

\* float(s); the float -0.0 is written as 0.0
FloatOf(s) ==
    LET u == StripWs(s)
        ps == Split(Unsigned(u), ".")
        frac == IF Len(ps) = 2 /\ ps[2] # <<>> THEN ps[2] ELSE <<"0">>
        m == DigitsVal(ps[1] \o frac)
    IN  NormFloat(IF Signed(u) /\ u[1] = "-" THEN 0 - m ELSE m, Len(frac))

(***************************************************************************)
(* dot_get and extract_items                                               *)
(***************************************************************************)
RECURSIVE dot_walk(_, _)
\* the loop of dot_get over the segments of the path
dot_walk(cur, raws) ==
    IF raws = <<>> THEN cur
    ELSE LET key == StripWs(Head(raws))
             next == IF IsMap(cur)
                     THEN (IF DHas(cur.m, key) THEN DGet(cur.m, key) ELSE NoneV)
                     ELSE IF IsList(cur) /\ IsIntLiteral(key)
                     THEN (IF 0 <= IntOf(key) /\ IntOf(key) < Len(cur.l)
                           THEN cur.l[IntOf(key) + 1] ELSE NoneV)
                     ELSE NoneV
         IN  IF key = <<>> THEN dot_walk(cur, Tail(raws))
             ELSE IF next = NoneV THEN NoneV
             ELSE dot_walk(next, Tail(raws))

\* dot_get(data, path), path a value: None or anything str() applies to
dot_get(data, path) ==
    IF path = NoneV THEN NoneV ELSE dot_walk(data, Split(PyStr(path), "."))

ENVELOPE_KEYS ==
    << Chars("list"), Chars("items"), Chars("results"), Chars("data"),
       Chars("products"), Chars("orders"), Chars("redirects"), Chars("records") >>

\* isinstance(val, list) and val and isinstance(val[0], dict)
IsListOfDicts(val) == IsList(val) /\ val.l # <<>> /\ IsMap(val.l[1])

RECURSIVE extract_items(_)
RECURSIVE extract_nested(_)
\* the second loop of extract_items, over payload.values()
extract_nested(items) ==
    IF items = <<>> THEN <<>>
    ELSE LET v == Head(items)[2]
         IN  IF IsMap(v) /\ extract_items(v) # <<>> THEN extract_items(v)
             ELSE IF ~IsMap(v) /\ IsListOfDicts(v) THEN v.l
             ELSE extract_nested(Tail(items))

extract_items(payload) ==
    IF IsList(payload) THEN SelectSeq(payload.l, IsMap)
    ELSE IF IsMap(payload)
    THEN LET hits == {i \in 1..Len(ENVELOPE_KEYS) :
                        /\ DHas(payload.m, ENVELOPE_KEYS[i])
                        /\ IsListOfDicts(DGet(payload.m, ENVELOPE_KEYS[i]))}
         IN  IF hits # {}
             THEN DGet(payload.m, ENVELOPE_KEYS[CHOOSE i \in hits : \A j \in hits : i <= j]).l
             ELSE extract_nested(payload.m)
    ELSE <<>>

(***************************************************************************)
(* validate_product_payload, fetch_item and the field check of             *)
(* update_product                                                          *)
(***************************************************************************)
ATTRIBUTES == Chars("attributes")

RECURSIVE clean_attributes(_, _)
\* cleaned_attributes: the attributes whose GET attributes/<id> was answered
\* with a truthy JSON value, `exists` being the ids so answered
clean_attributes(attrs, exists) ==
    IF attrs = <<>> THEN <<>>
    ELSE (IF Head(attrs)[1] \in exists THEN <<Head(attrs)>> ELSE <<>>)
         \o clean_attributes(Tail(attrs), exists)

RECURSIVE attribute_errors(_, _)
\* errors: one note "Atrybut <id> nie istnieje" per attribute left out
attribute_errors(attrs, exists) ==
    IF attrs = <<>> THEN <<>>
    ELSE (IF Head(attrs)[1] \in exists THEN <<>> ELSE <<Head(attrs)[1]>>)
         \o attribute_errors(Tail(attrs), exists)

RECURSIVE clean_items(_, _)
\* the first loop of validate_product_payload
clean_items(items, exists) ==
    IF items = <<>> THEN <<>>
    ELSE LET key == Head(items)[1]
             value == Head(items)[2]
             kept == IF key = ATTRIBUTES /\ IsMap(value)
                     THEN (IF clean_attributes(value.m, exists) # <<>>
                           THEN <<<<key, MapV(clean_attributes(value.m, exists))>>>>
                           ELSE <<>>)
                     ELSE <<Head(items)>>
         IN  kept \o clean_items(Tail(items), exists)

RECURSIVE payload_errors(_, _)
payload_errors(items, exists) ==
    IF items = <<>> THEN <<>>
    ELSE (IF Head(items)[1] = ATTRIBUTES /\ IsMap(Head(items)[2])
          THEN attribute_errors(Head(items)[2].m, exists) ELSE <<>>)
         \o payload_errors(Tail(items), exists)

RECURSIVE filter_flat(_)
\* filtered_flat: the items of flat whose key passes the policy
filter_flat(flat_items) ==
    IF flat_items = <<>> THEN <<>>
    ELSE (IF is_editable_product_field(Head(flat_items)[1])
          THEN <<Head(flat_items)>> ELSE <<>>)
         \o filter_flat(Tail(flat_items))

\* validate_product_payload(base_url, token, payload) -> (cleaned_payload, errors)
validate_product_payload(payload, exists) ==
    [ cleaned_payload |->
          unflatten(filter_flat(flatten(MapV(clean_items(payload, exists)), <<>>))),
      errors |-> payload_errors(payload, exists) ]

\* what one GET of fetch_item makes it return: [found, item]
fetch_item_on(data) ==
    IF data = NoData THEN [found |-> FALSE, item |-> NoneV]
    ELSE IF IsMap(data) /\ (DHas(data.m, Chars("id")) \/ DHas(data.m, Chars("product_id")))
    THEN [found |-> TRUE, item |-> data]
    ELSE IF extract_items(data) # <<>>
    THEN [found |-> TRUE, item |-> extract_items(data)[1]]
    ELSE [found |-> FALSE, item |-> NoneV]

IsNum(v) == v.t \in {"int", "float"}

\* the check that takes every field for applied
check_field_always(updated_product, key, expected_value) == TRUE

\* check_field(flat_key, expected_value): TRUE when the field goes to
\* changes_applied, FALSE when it goes to changes_failed
check_field(updated_product, key, expected_value) ==
    LET actual_value == dot_get(updated_product, StrV(key))
        str_vs_num == expected_value.t = "str" /\ IsNum(actual_value)
        num_vs_str == ~str_vs_num /\ IsNum(expected_value) /\ actual_value.t = "str"
        expected == IF str_vs_num
                    THEN (IF Contains(expected_value.s, DOT)
                          THEN (IF IsFloatLiteral(expected_value.s)
                                THEN FloatOf(expected_value.s) ELSE expected_value)
                          ELSE (IF IsIntLiteral(expected_value.s)
                                THEN IntV(IntOf(expected_value.s)) ELSE expected_value))
                    ELSE expected_value
        actual == IF num_vs_str
                  THEN (IF expected_value.t = "int"
                        THEN (IF IsIntLiteral(actual_value.s)
                              THEN IntV(IntOf(actual_value.s)) ELSE actual_value)
                        ELSE (IF IsFloatLiteral(actual_value.s)
                              THEN FloatOf(actual_value.s) ELSE actual_value))
                  ELSE actual_value
    IN  \/ expected = StrV(<<>>) /\ actual = NoneV
        \/ PyStr(actual) = PyStr(expected)

\* no sent field is ever listed as failed
changes_failed_none(updated_product, flat_payload) ==
    <<>>

RECURSIVE changes_failed_of(_, _)
\* changes_failed after the loop over flat_payload.items(): the keys of the
\* fields whose check failed, in order
changes_failed_of(updated_product, flat_payload) ==
    IF flat_payload = <<>> THEN <<>>
    ELSE (IF check_field(updated_product, Head(flat_payload)[1], Head(flat_payload)[2])
          THEN <<>> ELSE <<Head(flat_payload)[1]>>)
         \o changes_failed_of(updated_product, Tail(flat_payload))

(***************************************************************************)
(* Specification SpecUpdate: one call of update_product by                 *)
(* products_bulk_update_json, against a remote that answers every request  *)
(* as it likes                                                             *)
(***************************************************************************)
OK_STATUSES == {200, 201, 202, 204}
\* a list of fatal statuses that misses 404
FATAL_STATUSES_without_404 == {400, 401, 403, 422}

FATAL_STATUSES == {400, 401, 403, 404, 422}
\* the statuses a write request is answered with
WriteStatuses == {200, 201, 202, 203, 204, 400, 401, 403, 404, 405, 422, 500}
WriteExceptions == {"Timeout", "ConnectionError", "Exception"}

\* how a write request ends: a response with a status, or an exception
WriteOutcomes ==
    {[kind |-> "status", code |-> c, exc |-> "none"] :
        c \in WriteStatuses}
    \cup {[kind |-> "exception", code |-> 0, exc |-> e] : e \in WriteExceptions}

\* a list of attempts that starts with PATCH
attempts_patch_first(validated_payload) ==
    << [method |-> "PATCH", body |-> MapV(validated_payload), label |-> "PATCH plain"],
       [method |-> "PUT", body |-> MapV(validated_payload), label |-> "PUT plain"],
       [method |-> "PUT",
        body |-> MapV(<<<<Chars("product"), MapV(validated_payload)>>>>),
        label |-> "PUT product envelope"] >>

\* attempts: (method, body, label), the body being the validated payload or
\* the validated payload under the key 'product'
attempts(validated_payload) ==
    << [method |-> "PUT", body |-> MapV(validated_payload), label |-> "PUT plain"],
       [method |-> "PATCH", body |-> MapV(validated_payload), label |-> "PATCH plain"],
       [method |-> "PUT",
        body |-> MapV(<<<<Chars("product"), MapV(validated_payload)>>>>),
        label |-> "PUT product envelope"] >>

UpdBase == Chars("s")
ProductId == IntV(1)

\* build_rest_url(base_url, path): urljoin of the first root, which ends with
\* a slash, and a relative path
build_rest_url(b, path) == build_rest_roots(b)[1] \o LStrip(path, "/")

\* url = build_rest_url(base_url, f"products/{product_id}")
product_url == build_rest_url(UpdBase, Chars("products/") \o PyStr(ProductId))

\* the number of first entries of changes_failed quoted in the message
MAX_QUOTED == 3

Ret(ok, kind, failed, hint, notes, detail) ==
    [ok |-> ok, kind |-> kind, failed |-> failed, hint |-> hint, notes |-> notes,
     detail |-> detail]

NoDetail == [label |-> "", code |-> 0]

PRICE == Chars("price")

\* any('price' in field for field in changes_failed), a field being
\* f"{flat_key}: expected {expected_value}, got {actual_value}"
price_hint(updated_product, flat_payload, failed) ==
    \E i \in 1..Len(flat_payload) :
        /\ \E j \in 1..Len(failed) : failed[j] = flat_payload[i][1]
        /\ \/ Contains(flat_payload[i][1], PRICE)
           \/ Contains(PyStr(flat_payload[i][2]), PRICE)
           \/ Contains(PyStr(dot_get(updated_product, StrV(flat_payload[i][1]))), PRICE)

\* the payloads of the calls: any of the fields stock.price, id, tags and
\* attributes.7, each present or left out
PriceValues ==
    { IntV(10), FloatV(125, 1), StrV(Chars("10")), StrV(Chars("12.50")),
      StrV(<<>>), NoneV, StrV(Chars("abc")) }

Field(k, vs) == {<<>>} \cup {<<<<Chars(k), v>>>> : v \in vs}

UpdPayloads ==
    { p \o i \o t \o a :
        p \in Field("stock", {MapV(<<<<PRICE, v>>>>) : v \in PriceValues}),
        i \in Field("id", {IntV(1)}),
        t \in Field("tags", {ListV(<<IntV(1), IntV(10)>>)}),
        a \in Field("attributes", {MapV(<<<<Chars("7"), StrV(Chars("abc"))>>>>)}) }

AttributeIds == {Chars("7")}

\* the values the remote may show for stock.price on a re-read
ReadPriceValues ==
    { IntV(10), IntV(9), FloatV(125, 1), FloatV(100, 1), StrV(Chars("10")),
      StrV(Chars("12.5")), NoneV }

\* the product documents the remote may answer a re-read with
ProductDocs ==
    { <<<<Chars("id"), IntV(1)>>>> \o <<<<Chars("stock"), MapV(p)>>>> \o
      <<<<Chars("tags"), t>>>> \o
      <<<<ATTRIBUTES, MapV(<<<<Chars("7"), StrV(Chars("abc"))>>>>)>>>> :
        p \in {<<>>} \cup {<<<<PRICE, v>>>> : v \in ReadPriceValues},
        t \in {ListV(<<IntV(1), IntV(10)>>), StrV(Chars("1,10"))} }

\* the answers to a GET of fetch_item: no JSON, the product, the product in a
\* 'list' envelope, an empty dict, a list holding an empty dict
ReadResponses ==
    {FailResp("http_error"), FailResp("timeout")}
    \cup {JsonResp(MapV(d)) : d \in ProductDocs}
    \cup {JsonResp(MapV(<<<<Chars("list"), ListV(<<MapV(d)>>)>>>>)) : d \in ProductDocs}
    \cup {JsonResp(MapV(<<>>)), JsonResp(ListV(<<MapV(<<>>)>>))}

InitUpdate ==
    /\ u_payload \in UpdPayloads
    /\ u_exists \in SUBSET AttributeIds
    /\ u_validated = <<>>
    /\ u_errors = <<>>
    /\ u_attempt = 0
    /\ u_sent = <<>>
    /\ u_last_code = 0
    /\ u_get = 0
    /\ u_updated_product = NoneV
    /\ u_changes_failed = <<>>
    /\ u_ret = [ok |-> FALSE, kind |-> "none"]
    /\ u_pc = "perm"
    /\ b_updated = 0
    /\ b_failed = 0
    /\ CallIdle
    /\ RootsIdle
    /\ FlatIdle
    /\ FetchIdle
    /\ SyncIdle

\* return ok, message
UpdReturn(ret) ==
    /\ u_ret' = ret
    /\ u_pc' = "returned"

\* permissions = check_api_permissions(base_url, token): GETs whose answers
\* are only logged
CheckApiPermissions ==
    /\ u_pc = "perm"
    /\ u_pc' = "validate"
    /\ UNCHANGED <<u_payload, u_exists, u_validated, u_errors, u_attempt, u_sent,
                   u_last_code, u_get, u_updated_product, u_changes_failed, u_ret,
                   b_updated, b_failed, callVars, rootsVars, flatVars, fetchVars, syncVars>>

\* validate_product_payload, the return on an empty validated payload, and
\* the construction of attempts
ValidatePayload ==
    /\ u_pc = "validate"
    /\ LET v == validate_product_payload(u_payload, u_exists)
       IN  /\ u_validated' = v.cleaned_payload
           /\ u_errors' = v.errors
           /\ IF v.cleaned_payload = <<>>
              THEN /\ UpdReturn(Ret(FALSE, "no_valid_fields", <<>>, FALSE, v.errors, NoDetail))
                   /\ UNCHANGED u_attempt
              ELSE /\ u_pc' = "write"
                   /\ u_attempt' = 1
                   /\ UNCHANGED u_ret
    /\ UNCHANGED <<u_payload, u_exists, u_sent, u_last_code, u_get, u_updated_product,
                   u_changes_failed, b_updated, b_failed, callVars, rootsVars, flatVars, fetchVars, syncVars>>

\* one pass of the loop over attempts: requests.request and what follows it,
\* up to the call of fetch_item
SendWrite ==
    /\ u_pc = "write"
    /\ \E out \in WriteOutcomes :
         LET a == attempts(u_validated)[u_attempt]
             detail == [label |-> a.label, code |-> out.code]
         IN  /\ u_sent' = Append(u_sent, [method |-> a.method, url |-> product_url,
                                          body |-> a.body, label |-> a.label])
             /\ IF out.kind = "exception"
                THEN /\ UpdReturn(Ret(FALSE,
                                      IF out.exc = "Timeout" THEN "timeout"
                                      ELSE IF out.exc = "ConnectionError"
                                      THEN "connection_error" ELSE "unexpected_error",
                                      <<>>, FALSE, <<>>, NoDetail))
                     /\ UNCHANGED <<u_attempt, u_last_code, u_get>>
                ELSE /\ u_last_code' = out.code
                     /\ IF out.code \in OK_STATUSES
                        THEN /\ u_pc' = "reread"
                             /\ u_get' = 1
                             /\ UNCHANGED <<u_attempt, u_ret>>
                        ELSE IF \/ out.code \in FATAL_STATUSES
                                \/ u_attempt = Len(attempts(u_validated))
                        THEN /\ UpdReturn(Ret(FALSE, "rejected", <<>>, FALSE, <<>>, detail))
                             /\ UNCHANGED <<u_attempt, u_get>>
                        ELSE /\ u_attempt' = u_attempt + 1
                             /\ UNCHANGED <<u_pc, u_ret, u_get>>
    /\ UNCHANGED <<u_payload, u_exists, u_validated, u_errors, u_updated_product,
                   u_changes_failed, b_updated, b_failed, callVars, rootsVars, flatVars, fetchVars, syncVars>>

\* one GET of fetch_item(base_url, token, "products", product_id): two
\* candidate URLs under each root
FetchItemGet ==
    /\ u_pc = "reread"
    /\ \E resp \in ReadResponses :
         LET r == fetch_item_on(try_get_json(resp))
         IN  IF r.found
             THEN /\ u_updated_product' = r.item
                  /\ u_pc' = "verify"
                  /\ u_get' = 0
             ELSE IF u_get = 2 * Len(build_rest_roots(UpdBase))
             THEN /\ u_updated_product' = NoneV
                  /\ u_pc' = "verify"
                  /\ u_get' = 0
             ELSE /\ u_get' = u_get + 1
                  /\ UNCHANGED <<u_updated_product, u_pc>>
    /\ UNCHANGED <<u_payload, u_exists, u_validated, u_errors, u_attempt, u_sent,
                   u_last_code, u_changes_failed, u_ret, b_updated, b_failed,
                   callVars, rootsVars, flatVars, fetchVars, syncVars>>

\* the verification of the re-read product and the return that follows it
VerifyChanges ==
    /\ u_pc = "verify"
    /\ LET flat_payload == flatten(MapV(u_validated), <<>>)
           changes_failed == changes_failed_of(u_updated_product, flat_payload)
           quoted == SubSeq(changes_failed, 1,
                            IF Len(changes_failed) < MAX_QUOTED
                            THEN Len(changes_failed) ELSE MAX_QUOTED)
       IN  IF Truthy(u_updated_product)
           THEN /\ u_changes_failed' = changes_failed
                /\ IF changes_failed # <<>>
                   THEN UpdReturn(Ret(TRUE, "partial", quoted,
                                      price_hint(u_updated_product, flat_payload,
                                                 changes_failed),
                                      <<>>, NoDetail))
                   ELSE UpdReturn(Ret(TRUE, "confirmed", <<>>, FALSE, u_errors, NoDetail))
           ELSE /\ UNCHANGED u_changes_failed
                /\ UpdReturn(Ret(TRUE, "confirmed", <<>>, FALSE, u_errors, NoDetail))
    /\ UNCHANGED <<u_payload, u_exists, u_validated, u_errors, u_attempt, u_sent,
                   u_last_code, u_get, u_updated_product, b_updated, b_failed,
                   callVars, rootsVars, flatVars, fetchVars, syncVars>>

\* products_bulk_update_json after update_product returned: if ok then
\* updated += 1 else failed += 1
BulkRecord ==
    /\ u_pc = "returned"
    /\ u_pc' = "recorded"
    /\ IF u_ret.ok
       THEN b_updated' = b_updated + 1 /\ UNCHANGED b_failed
       ELSE b_failed' = b_failed + 1 /\ UNCHANGED b_updated
    /\ UNCHANGED <<u_payload, u_exists, u_validated, u_errors, u_attempt, u_sent,
                   u_last_code, u_get, u_updated_product, u_changes_failed, u_ret,
                   callVars, rootsVars, flatVars, fetchVars, syncVars>>

NextUpdate ==
    \/ CheckApiPermissions
    \/ ValidatePayload
    \/ SendWrite
    \/ FetchItemGet
    \/ VerifyChanges
    \/ BulkRecord

SpecUpdate == InitUpdate /\ [][NextUpdate]_vars

(***************************************************************************)
(* Claims about update_product                                             *)
(***************************************************************************)
IsNumeric(v) == IsNum(v) \/ (v.t = "str" /\ IsFloatLiteral(v.s))

\* the number a numeric value or numeric string stands for
NumVal(v) ==
    IF v.t = "int" THEN FloatV(10 * v.i, 1)
    ELSE IF v.t = "float" THEN NormFloat(v.m, v.e)
    ELSE FloatOf(v.s)

\* the re-read value agrees with the requested one: the same value, a number
\* and a numeric string (or two numbers) of equal value, or null for a
\* requested empty string
SameValue(expected, actual) ==
    \/ expected = actual
    \/ expected = StrV(<<>>) /\ actual = NoneV
    \/ /\ IsNum(expected) \/ IsNum(actual)
       /\ IsNumeric(expected) /\ IsNumeric(actual)
       /\ NumVal(expected) = NumVal(actual)

\* the fields sent: the items of the flattened validated payload
SentFields == flatten(MapV(u_validated), <<>>)

UpdReturned == u_pc \in {"returned", "recorded"}

\* C1: update_product returns the fully-confirmed outcome only if the re-read
\* after the accepted write yielded a record and every field sent has in it
\* the requested value; an unverified write is never reported as confirmed.
C1_ConfirmedOnlyIfVerified ==
    (UpdReturned /\ u_ret.kind = "confirmed") =>
        /\ Truthy(u_updated_product)
        /\ \A i \in 1..Len(SentFields) :
              SameValue(SentFields[i][2],
                        dot_get(u_updated_product, StrV(SentFields[i][1])))

STOCK_PRICE == Chars("stock.price")

C3_UnconfirmedNotCountedUpdated ==
    (u_pc = "recorded" /\ u_changes_failed # <<>>) => b_updated = 0

(***************************************************************************)
(* Claims about the write attempts of update_product                       *)
(***************************************************************************)
\* the write requests sent so far are the first ones of: PUT with the plain
\* document, PATCH with the plain document, PUT with the document under
\* 'product', all to the URL of the product
SentInOrder ==
    LET plain == MapV(u_validated)
        wrapped == MapV(<< <<Chars("product"), MapV(u_validated)>> >>)
        methods == <<"PUT", "PATCH", "PUT">>
        bodies == <<plain, plain, wrapped>>
    IN  /\ Len(u_sent) <= 3
        /\ \A i \in 1..Len(u_sent) :
              /\ u_sent[i].method = methods[i]
              /\ u_sent[i].body = bodies[i]
              /\ u_sent[i].url = product_url

\* C14: the writes are sent in the order PUT plain, PATCH plain, PUT with
\* the 'product' envelope, to one endpoint, at most three of them; no write
\* is sent after one was answered with a 2xx status.
C14_WritesInOrder ==
    [][/\ SentInOrder'
       /\ (200 <= u_last_code /\ u_last_code < 300) => u_sent' = u_sent]_vars

\* C14 as amended: the writes are sent in the order PUT plain, PATCH plain,
\* PUT with the 'product' envelope, to one endpoint, at most three of them;
\* no write is sent after one was answered with status 200, 201, 202 or 204.
C14_WritesInOrderAmended ==
    [][/\ SentInOrder'
       /\ u_last_code \in {200, 201, 202, 204} => u_sent' = u_sent]_vars

\* the PUT was answered with a status that is neither accepted nor fatal, the
\* PATCH with 204, and the write phase ended there
C14_Witness ==
    /\ u_pc = "reread"
    /\ Len(u_sent) = 2
    /\ u_sent[2].method = "PATCH"
    /\ u_last_code = 204

\* the results update_product returns from its except clauses
ExceptionKinds == {"timeout", "connection_error", "unexpected_error"}

Rejected(code) ==
    /\ u_pc' = "returned"
    /\ ~u_ret'.ok
    /\ u_ret'.kind = "rejected"
    /\ u_ret'.detail.code = code

\* C15: an attempt answered with 400, 401, 403, 404 or 422 ends the call
\* with a rejection that carries a diagnostic, and no write follows it; after
\* any other status outside 2xx the next attempt of the list is the one to be
\* sent, and the call is rejected only when the list is exhausted.
C15_FatalStopsOthersFallThrough ==
    [][/\ u_last_code \in {400, 401, 403, 404, 422} => u_sent' = u_sent
       /\ (u_pc = "write" /\ u_sent' # u_sent /\ u_ret'.kind \notin ExceptionKinds) =>
             /\ u_last_code' \in {400, 401, 403, 404, 422} => Rejected(u_last_code')
             /\ (/\ u_last_code' \notin {400, 401, 403, 404, 422}
                 /\ ~(200 <= u_last_code' /\ u_last_code' < 300)) =>
                   IF Len(u_sent') < 3
                   THEN u_pc' = "write" /\ u_attempt' = Len(u_sent') + 1
                   ELSE Rejected(u_last_code')]_vars

\* the PUT was answered with a status that lets the next attempt through, the
\* PATCH with 404, and the call ended rejected
C15_Witness ==
    /\ u_pc = "returned"
    /\ u_ret.kind = "rejected"
    /\ u_ret.detail.code = 404
    /\ Len(u_sent) = 2

\* C16: a timeout or a connection error aborts only the attempt it hits:
\* update_product ends with that error only after the last attempt of its
\* list was sent.
C16_ExceptionAbortsOnlyAttempt ==
    (u_pc = "returned" /\ u_ret.kind \in {"timeout", "connection_error"})
    => Len(u_sent) = 3


(***************************************************************************)
(* Redirect paths: _norm_path, _ensure_path and the path guesses           *)
(***************************************************************************)
\* the least index of s holding a character of cs, or Len(s) + 1
FirstOf(s, cs) ==
    LET at == {i \in 1..Len(s) : s[i] \in cs}
    IN  IF at = {} THEN Len(s) + 1 ELSE CHOOSE i \in at : \A j \in at : i <= j

\* the greatest index of s holding c, or 0
LastOf(s, c) ==
    LET at == {i \in 1..Len(s) : s[i] = c}
    IN  IF at = {} THEN 0 ELSE CHOOSE i \in at : \A j \in at : j <= i

\* urlparse(s).path for s starting with http:// or https://: what follows
\* the network location, up to the query or fragment, without the
\* parameters of the last segment
url_path(s) ==
    LET rest == SubSeq(s, FirstOf(s, {":"}) + 3, Len(s))
        url == SubSeq(rest, FirstOf(rest, {"/", "?", "#"}), Len(rest))
        upto == SubSeq(url, 1, FirstOf(url, {"?", "#"}) - 1)
        seg == SubSeq(upto, LastOf(upto, "/") + 1, Len(upto))
    IN  SubSeq(upto, 1, LastOf(upto, "/") + FirstOf(seg, {";"}) - 1)

RECURSIVE collapse_trailing(_, _)
\* while len(s) > least and s.endswith('//'): s = s[:-1]
collapse_trailing(s, least) ==
    IF Len(s) > least /\ EndsWith(s, <<"/", "/">>)
    THEN collapse_trailing(SubSeq(s, 1, Len(s) - 1), least)
    ELSE s

\* _norm_path without its first two lines: nothing is returned as ''
_norm_path_unguarded(url_like) ==
    collapse_trailing(SLASH \o StripWs(PyStr(url_like)), 1)

\* _norm_path(url_like), url_like a value
_norm_path(url_like) ==
    IF ~Truthy(url_like) THEN <<>>
    ELSE LET s == StripWs(PyStr(url_like))
             p == IF StartsWith(s, Chars("http://")) \/ StartsWith(s, Chars("https://"))
                  THEN (IF url_path(s) # <<>> THEN url_path(s) ELSE SLASH)
                  ELSE s
             q == IF ~StartsWith(p, SLASH) THEN SLASH \o p ELSE p
         IN  collapse_trailing(q, 1)

\* _ensure_path(value), value a string
_ensure_path(value) ==
    IF StripWs(value) = <<>> THEN <<>>
    ELSE LET v == StripWs(value)
         IN  collapse_trailing(IF ~StartsWith(v, SLASH) THEN SLASH \o v ELSE v, 0)

IsNonBlankStr(v) == v.t = "str" /\ StripWs(v.s) # <<>>

\* d.get(k)
Get(d, k) == IF DHas(d, k) THEN DGet(d, k) ELSE NoneV

DIRECT_KEYS == << Chars("seo_url"), Chars("seo"), Chars("url"), Chars("slug") >>
PL_KEYS == << Chars("seo"), Chars("seo_url"), Chars("url"), Chars("slug"), Chars("name") >>

\* the first key of keys under which d holds a non-blank string, or 0
FirstPathKey(d, keys) ==
    LET hits == {i \in 1..Len(keys) : IsNonBlankStr(Get(d, keys[i]))}
    IN  IF hits = {} THEN 0 ELSE CHOOSE i \in hits : \A j \in hits : i <= j

\* what the body of the loop of guess_product_path returns for the answer
\* data of one root: [found, path]
guess_on(data) ==
    LET pl == IF IsMap(data) /\ IsMap(Get(data.m, Chars("translations")))
              THEN Get(Get(data.m, Chars("translations")).m, Chars("pl"))
              ELSE NoneV
    IN  IF ~IsMap(data) THEN [found |-> FALSE, path |-> <<>>]
        ELSE IF FirstPathKey(data.m, DIRECT_KEYS) # 0
        THEN [found |-> TRUE,
              path |-> _ensure_path(DGet(data.m, DIRECT_KEYS[FirstPathKey(data.m, DIRECT_KEYS)]).s)]
        ELSE IF IsMap(pl) /\ FirstPathKey(pl.m, PL_KEYS) # 0
        THEN [found |-> TRUE,
              path |-> _ensure_path(DGet(pl.m, PL_KEYS[FirstPathKey(pl.m, PL_KEYS)]).s)]
        ELSE [found |-> FALSE, path |-> <<>>]

RECURSIVE guess_path(_, _, _)
\* guess_product_path / guess_category_path: datas holds the answer of every
\* root in turn, fallback is "/product/" or "/category/"
guess_path(datas, fallback, id) ==
    IF datas = <<>> THEN fallback \o PyStr(id)
    ELSE IF guess_on(Head(datas)).found THEN guess_on(Head(datas)).path
    ELSE guess_path(Tail(datas), fallback, id)

guess_product_path(datas, product_id) == guess_path(datas, Chars("/product/"), product_id)
guess_category_path(datas, category_id) == guess_path(datas, Chars("/category/"), category_id)

RECURSIVE dedupe(_, _)
\* unique: the entries whose repr(sorted(entry.items())) was not seen before
dedupe(entries, unique) ==
    IF entries = <<>> THEN unique
    ELSE dedupe(Tail(entries),
                IF \E i \in 1..Len(unique) : PyEq(MapV(unique[i]), MapV(Head(entries)))
                THEN unique ELSE Append(unique, Head(entries)))

\* build_payloads(source_url, code, target_url=, target_type=, target_object_id=,
\* lang_id=): source_url and target_url strings, the others values
build_payloads(source_url, code, target_url, target_type, target_object_id, lang_id) ==
    LET own == target_type = IntV(0)
        documented ==
            <<<<Chars("route"), StrV(source_url)>>, <<Chars("type"), target_type>>>>
            \o (IF target_object_id # NoneV /\ ~own
                THEN <<<<Chars("object_id"), target_object_id>>>> ELSE <<>>)
            \o (IF lang_id # NoneV THEN <<<<Chars("lang_id"), lang_id>>>> ELSE <<>>)
            \o (IF own /\ target_url # <<>>
                THEN <<<<Chars("target"), StrV(target_url)>>>> ELSE <<>>)
        documented_with_code == DSet(documented, Chars("http_code"), code)
        legacy ==
            IF own
            THEN (IF target_url # <<>>
                  THEN << <<<<Chars("source"), StrV(source_url)>>,
                            <<Chars("target"), StrV(target_url)>>,
                            <<Chars("http_code"), code>>>>,
                          <<<<Chars("old_url"), StrV(source_url)>>,
                            <<Chars("new_url"), StrV(target_url)>>,
                            <<Chars("code"), code>>>>,
                          <<<<Chars("from"), StrV(source_url)>>,
                            <<Chars("to"), StrV(target_url)>>,
                            <<Chars("code"), code>>>> >>
                  ELSE <<>>)
            ELSE << <<<<Chars("source"), StrV(source_url)>>, <<Chars("type"), target_type>>>>
                    \o (IF target_object_id # NoneV
                        THEN <<<<Chars("object_id"), target_object_id>>>> ELSE <<>>)
                    \o <<<<Chars("http_code"), code>>>> >>
    IN  dedupe(<<documented, documented_with_code>> \o legacy, <<>>)

\* no key of the item is read
FirstTruthy_none(item, keys) ==
    NoneV

RECURSIVE FirstTruthy(_, _)
\* item.get(k1) or item.get(k2) or ... or item.get(kn)
FirstTruthy(item, keys) ==
    IF Len(keys) = 1 \/ Truthy(Get(item, Head(keys))) THEN Get(item, Head(keys))
    ELSE FirstTruthy(item, Tail(keys))

\* int(x) inside try/except: the integer as a value, or None
TryInt(x) ==
    IF x.t = "int" THEN x
    ELSE IF x.t = "str" /\ IsIntLiteral(x.s) THEN IntV(IntOf(x.s))
    ELSE IF x.t = "float" THEN IntV(x.m \div Pow10(x.e))
    ELSE NoneV

\* parse_remote_redirect(item), item a dict
parse_remote_redirect(item) ==
    LET K(names) == [i \in 1..Len(names) |-> Chars(names[i])]
        source == FirstTruthy(item, K(<<"source", "old_url", "from", "url", "source_url",
                                       "prev_url", "from_url", "previous_url", "route">>))
        target0 == FirstTruthy(item, K(<<"target", "new_url", "to", "target_url",
                                        "redirect_url">>))
        prod_id == FirstTruthy(item, K(<<"product_id", "productId", "target_product_id">>))
        cat_id == FirstTruthy(item, K(<<"category_id", "categoryId", "target_category_id">>))
        obj_id == FirstTruthy(item, K(<<"object_id", "objectId">>))
        obj_type_raw == FirstTruthy(item, K(<<"type", "object_type">>))
        obj_type_str == IF obj_type_raw # NoneV THEN Lower(PyStr(obj_type_raw)) ELSE <<>>
        target1 == IF ~Truthy(target0) /\ Truthy(prod_id)
                   THEN StrV(Chars("/product/") \o PyStr(prod_id)) ELSE target0
        target2 == IF ~Truthy(target1) /\ Truthy(cat_id)
                   THEN StrV(Chars("/category/") \o PyStr(cat_id)) ELSE target1
        target == IF ~Truthy(target2) /\ Truthy(obj_id) /\ obj_type_str # <<>>
                  THEN (IF Contains(obj_type_str, Chars("product"))
                        THEN StrV(Chars("/product/") \o PyStr(obj_id))
                        ELSE IF Contains(obj_type_str, Chars("category"))
                        THEN StrV(Chars("/category/") \o PyStr(obj_id))
                        ELSE target2)
                  ELSE target2
        code == FirstTruthy(item, K(<<"http_code", "code", "status">>))
        rid == FirstTruthy(item, K(<<"id", "redirect_id", "uuid">>))
        type_int == IF obj_type_raw # NoneV THEN TryInt(obj_type_raw) ELSE NoneV
        target_type ==
            IF type_int # NoneV THEN type_int
            ELSE IF Contains(obj_type_str, Chars("product")) THEN IntV(1)
            ELSE IF Contains(obj_type_str, Chars("category")) THEN IntV(2)
            ELSE IF Contains(obj_type_str, Chars("producer")) THEN IntV(3)
            ELSE IF Contains(obj_type_str, Chars("info")) THEN IntV(4)
            ELSE NoneV
    IN  [ source |-> source,
          target |-> target,
          code |-> IF code # NoneV THEN TryInt(code) ELSE NoneV,
          rid |-> IF rid # NoneV THEN StrV(PyStr(rid)) ELSE NoneV,
          target_type |-> target_type,
          target_object_id |-> IF obj_id # NoneV THEN TryInt(obj_id) ELSE NoneV ]

\* the test of the loop of was_redirect_created on one listed item
same_redirect(it, source_url, target_url, target_type, target_object_id) ==
    LET r == parse_remote_redirect(it)
        want_src == _norm_path(StrV(source_url))
        want_tgt == _norm_path(StrV(target_url))
    IN  /\ _norm_path(r.source) = want_src
        /\ \/ want_tgt # <<>> /\ _norm_path(r.target) = want_tgt
           \/ /\ target_type # NoneV
              /\ r.target_type = target_type
              /\ target_object_id = NoneV \/ r.target_object_id = target_object_id

\* was_redirect_created(base_url, token, source_url, target_url, target_type=,
\* target_object_id=) on the items list_redirects returned: [exists, item]
was_redirect_created(items, source_url, target_url, target_type, target_object_id) ==
    LET hits == {i \in 1..Len(items) :
                    same_redirect(items[i].m, source_url, target_url, target_type,
                                  target_object_id)}
    IN  IF hits = {} THEN [exists |-> FALSE, item |-> NoneV]
        ELSE [exists |-> TRUE, item |-> items[CHOOSE i \in hits : \A j \in hits : i <= j]]

(***************************************************************************)
(* post_redirect                                                           *)
(***************************************************************************)
\* endpoint_candidates for a root
endpoint_candidates(root) ==
    LET lowered_root == Lower(root)
    IN  IF Contains(lowered_root, Chars("rest"))
        THEN <<Chars("redirects"), Chars("seo/redirects")>>
        ELSE <<Chars("redirects")>>
             \o (IF ~Contains(lowered_root, Chars("/webapi/api/"))
                 THEN <<Chars("seo/redirects")>> ELSE <<>>)
             \o (IF ~Contains(lowered_root, Chars("api/"))
                 THEN <<Chars("redirects/insert")>> ELSE <<>>)

\* the answers to a POST: an exception of requests.post, or a response with
\* a status, the text of its body and the value resp.json() parses from it
\* (NoData when it raises)
PostException == [kind |-> "exception", status |-> 0, body |-> <<>>, json |-> NoData]
PostResp(status, text, json) == [kind |-> "http", status |-> status, body |-> text, json |-> json]

ID_KEYS == << Chars("redirect_id"), Chars("id"), Chars("uuid"), Chars("result"), Chars("data") >>

\* isinstance(val, (int, str)) and str(val).strip()
IsIdValue(val) == val.t \in {"int", "str"} /\ StripWs(PyStr(val)) # <<>>

\* str.isdigit()
IsDigitStr(s) == s # <<>> /\ AllDigits(s)

\* redirect_id for a response with a 2xx status: a string, <<>> for None
redirect_id_of(resp) ==
    IF IsMap(resp.json)
    THEN LET hits == {i \in 1..Len(ID_KEYS) : IsIdValue(Get(resp.json.m, ID_KEYS[i]))}
         IN  IF hits = {} THEN <<>>
             ELSE StripWs(PyStr(Get(resp.json.m,
                                    ID_KEYS[CHOOSE i \in hits : \A j \in hits : i <= j])))
    ELSE IF resp.json.t = "int" THEN PyStr(resp.json)
    ELSE IF IsDigitStr(StripWs(resp.body)) THEN StripWs(resp.body)
    ELSE <<>>

DEBUG == Chars("_debug")
REDIRECT_ID == Chars("redirect_id")

\* d.setdefault(k, v)
SetDefault(d, k, v) == IF DHas(d, k) THEN d ELSE DSet(d, k, v)

\* the answer is a JSON object whose own '_debug' member is not an object:
\* parsed_json['_debug'].update(...) raises AttributeError
DebugClash(resp) ==
    IsMap(resp.json) /\ DHas(resp.json.m, DEBUG) /\ ~IsMap(DGet(resp.json.m, DEBUG))

\* the third component of the tuple post_redirect returns on success
success_json(resp, url, data, redirect_id) ==
    LET payload_debug ==
            << <<Chars("url"), StrV(url)>>, <<Chars("payload"), MapV(data)>>,
               <<Chars("status"), IntV(resp.status)>>,
               <<REDIRECT_ID, StrV(redirect_id)>> >>
    IN  IF IsMap(resp.json)
        THEN LET with_debug == SetDefault(resp.json.m, DEBUG, MapV(<<>>))
                 dbg == DGet(with_debug, DEBUG)
             IN  SetDefault(DSet(with_debug, DEBUG, MapV(DUpdate(dbg.m, payload_debug))),
                            REDIRECT_ID, StrV(redirect_id))
        ELSE << <<REDIRECT_ID, StrV(redirect_id)>>, <<DEBUG, MapV(payload_debug)>> >>

\* 200 <= resp.status_code < 300
Accepted(resp) == resp.kind = "http" /\ 200 <= resp.status /\ resp.status < 300

\* what one pass of the innermost loop of post_redirect does with the answer:
\* [done, ok, msg, js], msg being the message as [kind, status, url]
post_once(resp, url, data) ==
    LET Msg(kind) == [kind |-> kind, status |-> resp.status, url |-> url]
    IN  IF resp.kind = "exception"
        THEN [done |-> FALSE, ok |-> FALSE, msg |-> Msg("exception"), js |-> NoneV]
        ELSE IF ~Accepted(resp)
        THEN [done |-> FALSE, ok |-> FALSE, msg |-> Msg("http_error"), js |-> NoneV]
        ELSE IF redirect_id_of(resp) # <<>> /\ DebugClash(resp)
        THEN [done |-> FALSE, ok |-> FALSE, msg |-> Msg("exception"), js |-> NoneV]
        ELSE IF redirect_id_of(resp) # <<>>
        THEN [done |-> TRUE, ok |-> TRUE, msg |-> Msg("ok"),
              js |-> MapV(success_json(resp, url, data, redirect_id_of(resp)))]
        ELSE [done |-> FALSE, ok |-> FALSE, msg |-> Msg("no_id"), js |-> NoneV]

(***************************************************************************)
(* Specification SpecSync: one run of sync_redirect_rule on a rule, against *)
(* a remote that lists redirects and answers every request as it likes     *)
(***************************************************************************)
\* the remote lists at most MaxRemote redirects
MaxRemote == 2

SyncBase == Chars("s/webapi/api")

URL_TO_URL == "url_to_url"
PRODUCT_TO_URL == "product_to_url"
CATEGORY_TO_URL == "category_to_url"

\* RedirectRule.TargetType
OWN == 0
PRODUCT == 1
CATEGORY == 2

\* the rules given: a URL rule, a product rule with or without its product
\* id, a category rule with or without its category id; never synced, or
\* synced before as the remote redirect 5
RulesOf(rule_type, product_ids, category_ids) ==
    [ rule_type : {rule_type},
      source_url : {<<>>, Chars("/old"), Chars("http://x/old ")},
      target_url : {<<>>, Chars("/new")},
      product_id : product_ids,
      category_id : category_ids,
      status_code : {301},
      remote_id : {<<>>, Chars("5")},
      target_type : {OWN},
      target_object_id : {NoneV},
      last_sync_status : {[kind |-> "none"]},
      last_sync_at : {0} ]

Rules ==
    RulesOf(URL_TO_URL, {NoneV}, {NoneV})
    \cup RulesOf(PRODUCT_TO_URL, {NoneV, IntV(7)}, {NoneV})
    \cup RulesOf(CATEGORY_TO_URL, {NoneV}, {NoneV, IntV(3)})

\* a listed redirect from /old to the URL /new, and one from /old to product 7
ListedOwn ==
    MapV(<< <<Chars("id"), IntV(5)>>, <<Chars("route"), StrV(Chars("/old"))>>,
            <<Chars("type"), IntV(0)>>, <<Chars("target"), StrV(Chars("/new"))>> >>)
ListedProduct ==
    MapV(<< <<Chars("id"), IntV(5)>>, <<Chars("route"), StrV(Chars("/old"))>>,
            <<Chars("type"), IntV(1)>>, <<Chars("object_id"), IntV(7)>> >>)

RemoteInits == { <<>>, <<ListedOwn>>, <<ListedProduct>> }

\* the answers of a root to the GET of a product or category
SyncRoots == build_rest_roots(SyncBase)

\* the endpoint candidates of every root, and the URLs they give:
\* url = urljoin(root, endpoint), the root ending with a slash
SyncEndpoints == [i \in 1..Len(SyncRoots) |-> endpoint_candidates(SyncRoots[i])]
SyncUrls ==
    [i \in 1..Len(SyncRoots) |->
        [j \in 1..Len(SyncEndpoints[i]) |-> SyncRoots[i] \o SyncEndpoints[i][j]]]

\* the answers of the roots to the GETs of a product or category: no root
\* answers, or one root answers with a record that holds an SEO path
GuessAnswer == MapV(<<<<Chars("seo_url"), StrV(Chars("p7"))>>>>)
GuessDatas ==
    { [i \in 1..Len(SyncRoots) |-> IF i = at THEN GuessAnswer ELSE NoData] :
        at \in 0..Len(SyncRoots) }

PostResponses ==
    { PostException,
      PostResp(500, Chars("err"), NoData),
      PostResp(200, Chars("{id: 6}"), MapV(<<<<Chars("id"), IntV(6)>>>>)),
      PostResp(200, Chars("{id: 6, _debug: x}"),
               MapV(<< <<Chars("id"), IntV(6)>>, <<DEBUG, StrV(Chars("x"))>> >>)),
      PostResp(201, Chars("{}"), MapV(<<>>)),
      PostResp(200, Chars("12"), IntV(12)),
      PostResp(200, Chars("007"), NoData) }

InitSync ==
    /\ rule \in Rules
    /\ saved = rule
    /\ s_remote \in RemoteInits
    /\ s_source = <<>>
    /\ s_target = <<>>
    /\ s_target_type = OWN
    /\ s_target_object_id = NoneV
    /\ s_payloads = <<>>
    /\ s_at = <<0, 0, 0>>
    /\ s_last_error = [kind |-> "none"]
    /\ s_posted = <<>>
    /\ s_accepted = 0
    /\ s_identified = 0
    /\ s_out = [ok |-> FALSE, kind |-> "none"]
    /\ s_result = [ok |-> FALSE, level |-> "none"]
    /\ s_pc = "start"
    /\ CallIdle
    /\ RootsIdle
    /\ FlatIdle
    /\ FetchIdle
    /\ UpdIdle

SyncResult(ok, level, message, source_url, target_url) ==
    [ok |-> ok, level |-> level, message |-> message, source_url |-> source_url,
     target_url |-> target_url]

\* return SyncResult(...)
SyncReturn(result) ==
    /\ s_result' = result
    /\ s_pc' = "returned"

\* the resolution of source and target, the early returns, and build_payloads
ResolveRule ==
    /\ s_pc = "start"
    /\ LET is_product == rule.rule_type = PRODUCT_TO_URL
           is_category == rule.rule_type = CATEGORY_TO_URL
           stripped == StripWs(rule.source_url)
           guess_source_product == stripped = <<>> /\ is_product /\ Truthy(rule.product_id)
           guess_source_category ==
               stripped = <<>> /\ ~guess_source_product /\ is_category
               /\ Truthy(rule.category_id)
           target0 == _norm_path(StrV(StripWs(rule.target_url)))
           guess_target == /\ target0 = <<>>
                           /\ \/ is_product /\ Truthy(rule.product_id)
                              \/ is_category /\ Truthy(rule.category_id)
       IN  \E datas1 \in (IF guess_source_product \/ guess_source_category
                          THEN GuessDatas ELSE {<<>>}),
              datas2 \in (IF guess_target THEN GuessDatas ELSE {<<>>}) :
             LET source == _norm_path(StrV(
                     IF guess_source_product
                     THEN guess_product_path(datas1, rule.product_id)
                     ELSE IF guess_source_category
                     THEN guess_category_path(datas1, rule.category_id)
                     ELSE stripped))
                 target_type == IF is_product THEN PRODUCT
                                ELSE IF is_category THEN CATEGORY ELSE OWN
                 target_object_id == IF is_product THEN rule.product_id
                                     ELSE IF is_category THEN rule.category_id ELSE NoneV
                 target == IF ~guess_target THEN target0
                           ELSE IF is_product
                           THEN _norm_path(StrV(guess_product_path(datas2, rule.product_id)))
                           ELSE _norm_path(StrV(guess_category_path(datas2, rule.category_id)))
                 Error(message) ==
                     /\ SyncReturn(SyncResult(FALSE, "error", message, <<>>, <<>>))
                     /\ UNCHANGED <<s_source, s_target, s_target_type, s_target_object_id,
                                    s_payloads, s_at, s_last_error>>
             IN  IF source = <<>> THEN Error("no_source")
                 ELSE IF is_product /\ ~Truthy(rule.product_id)
                 THEN Error("product_id_required")
                 ELSE IF is_category /\ ~Truthy(rule.category_id)
                 THEN Error("category_id_required")
                 ELSE /\ s_source' = source
                      /\ s_target' = target
                      /\ s_target_type' = target_type
                      /\ s_target_object_id' = target_object_id
                      /\ s_payloads' = build_payloads(source, IntV(rule.status_code),
                                           IF target_type = OWN THEN target ELSE <<>>,
                                           IntV(target_type), target_object_id, IntV(1))
                      /\ s_at' = <<1, 1, 1>>
                      /\ s_last_error' = [kind |-> "no_response", status |-> 0, url |-> <<>>]
                      /\ s_pc' = "post"
                      /\ UNCHANGED s_result
    /\ UNCHANGED <<rule, saved, s_remote, s_posted, s_accepted, s_identified, s_out,
                   callVars, rootsVars, flatVars, fetchVars, updVars>>

\* one pass of the innermost loop of post_redirect: one POST; the remote may
\* add the posted redirect to its list when it answers with a 2xx status.
\* The step keeps one history: the list of the remote (counted = FALSE) or the
\* count of the answers (counted = TRUE).
PostStep(counted) ==
    /\ s_pc = "post"
    /\ LET endpoints == SyncEndpoints[s_at[1]]
           url == SyncUrls[s_at[1]][s_at[2]]
           data == s_payloads[s_at[3]]
           exhausted == /\ s_at[3] = Len(s_payloads)
                        /\ s_at[2] = Len(endpoints)
                        /\ s_at[1] = Len(SyncRoots)
           next_at == IF s_at[3] < Len(s_payloads) THEN <<s_at[1], s_at[2], s_at[3] + 1>>
                      ELSE IF s_at[2] < Len(endpoints) THEN <<s_at[1], s_at[2] + 1, 1>>
                      ELSE <<s_at[1] + 1, 1, 1>>
       IN  \E resp \in PostResponses, created \in BOOLEAN :
             LET r == post_once(resp, url, data)
             IN  /\ created => (~counted /\ Accepted(resp) /\ Len(s_remote) < MaxRemote)
                 /\ s_remote' = IF created
                                THEN Append(s_remote,
                                            MapV(DSet(data, Chars("id"),
                                                      IntV(6 + Len(s_remote)))))
                                ELSE s_remote
                 /\ s_posted' = Append(s_posted, s_at)
                 /\ s_accepted' = s_accepted + (IF counted /\ Accepted(resp) THEN 1 ELSE 0)
                 /\ s_identified' = s_identified
                                    + (IF counted /\ Accepted(resp)
                                          /\ redirect_id_of(resp) # <<>>
                                       THEN 1 ELSE 0)
                 /\ IF r.done \/ exhausted
                    THEN /\ s_out' = [ok |-> r.done, msg |-> r.msg,
                                      js |-> IF r.done THEN r.js ELSE NoneV]
                         /\ s_pc' = "save"
                         /\ s_at' = <<0, 0, 0>>
                         /\ s_last_error' = [kind |-> "none"]
                    ELSE /\ s_last_error' = r.msg
                         /\ s_at' = next_at
                         /\ UNCHANGED <<s_out, s_pc>>
    /\ UNCHANGED <<rule, saved, s_source, s_target, s_target_type, s_target_object_id,
                   s_payloads, s_result, callVars, rootsVars, flatVars, fetchVars, updVars>>

\* post_redirect as sync_redirect_rule calls it
PostOnce == PostStep(FALSE)

\* post_redirect called for itself
PostOnceCounted == PostStep(TRUE)

\* what follows post_redirect up to rule.save(update_fields=...): the status
\* text is kept as the message and the URL it quotes, before the cut at 200
\* characters
SaveRule ==
    /\ s_pc = "save"
    /\ LET js == s_out.js
           dbg == IF IsMap(js) THEN Get(js.m, DEBUG) ELSE NoneV
           dbg_url == IF IsMap(dbg) THEN Get(dbg.m, Chars("url")) ELSE NoneV
           rid == IF s_out.ok /\ IsMap(js)
                  THEN FirstTruthy(js.m, <<Chars("id"), REDIRECT_ID, Chars("uuid")>>)
                  ELSE NoneV
           new_rule ==
               [rule EXCEPT
                  !.last_sync_status = [msg |-> s_out.msg, at |-> dbg_url],
                  !.last_sync_at = @ + 1,
                  !.remote_id = IF rid # NoneV THEN PyStr(rid) ELSE @,
                  !.source_url = IF s_source # <<>> THEN s_source ELSE @,
                  !.target_url = IF s_target # <<>> THEN s_target ELSE @,
                  !.target_type = s_target_type,
                  !.target_object_id = s_target_object_id]
           fields_to_update ==
               {"last_sync_status", "last_sync_at"}
               \cup {f \in {"remote_id", "source_url", "target_url", "target_type",
                            "target_object_id"} : new_rule[f] # rule[f]}
       IN  /\ rule' = new_rule
           /\ saved' = [f \in DOMAIN saved |->
                           IF f \in fields_to_update THEN new_rule[f] ELSE saved[f]]
           /\ s_pc' = IF s_out.ok THEN "verify" ELSE "fail"
    /\ UNCHANGED <<s_remote, s_source, s_target, s_target_type, s_target_object_id,
                   s_payloads, s_at, s_last_error, s_posted,
                   s_accepted, s_identified, s_out, s_result,
                   callVars, rootsVars, flatVars, fetchVars, updVars>>

\* if ok: the call was_redirect_created(..., remote_id=rule.remote_id) names a
\* parameter the function does not have; the TypeError goes to the caller
CallWasRedirectCreated ==
    /\ s_pc = "verify"
    /\ s_pc' = "raised"
    /\ UNCHANGED <<rule, saved, s_remote, s_source, s_target, s_target_type,
                   s_target_object_id, s_payloads, s_at, s_last_error, s_posted,
                   s_accepted, s_identified, s_out,
                   s_result, callVars, rootsVars, flatVars, fetchVars, updVars>>

\* the final return, reached when post_redirect did not succeed
ReturnSyncError ==
    /\ s_pc = "fail"
    /\ SyncReturn(SyncResult(FALSE, "error", s_out.msg, s_source, s_target))
    /\ UNCHANGED <<rule, saved, s_remote, s_source, s_target, s_target_type,
                   s_target_object_id, s_payloads, s_at, s_last_error, s_posted,
                   s_accepted, s_identified, s_out,
                   callVars, rootsVars, flatVars, fetchVars, updVars>>

NextSync ==
    \/ ResolveRule
    \/ PostOnce
    \/ SaveRule
    \/ CallWasRedirectCreated
    \/ ReturnSyncError

SpecSync == InitSync /\ [][NextSync]_vars

(***************************************************************************)
(* Specification SpecPost: one call of post_redirect with the payloads of  *)
(* a URL redirect or of a product redirect                                 *)
(***************************************************************************)
PostPayloads ==
    { build_payloads(Chars("/old"), IntV(301), Chars("/new"), IntV(OWN), NoneV, IntV(1)),
      build_payloads(Chars("/old"), IntV(301), <<>>, IntV(PRODUCT), IntV(7), IntV(1)) }

InitPost ==
    /\ rule = <<>>
    /\ saved = <<>>
    /\ s_remote = <<>>
    /\ s_source = <<>>
    /\ s_target = <<>>
    /\ s_target_type = 0
    /\ s_target_object_id = NoneV
    /\ s_payloads \in PostPayloads
    /\ s_at = <<1, 1, 1>>
    /\ s_last_error = [kind |-> "no_response", status |-> 0, url |-> <<>>]
    /\ s_posted = <<>>
    /\ s_accepted = 0
    /\ s_identified = 0
    /\ s_out = [ok |-> FALSE, kind |-> "none"]
    /\ s_result = [ok |-> FALSE, level |-> "none"]
    /\ s_pc = "post"
    /\ CallIdle
    /\ RootsIdle
    /\ FlatIdle
    /\ FetchIdle
    /\ UpdIdle

NextPost == PostOnceCounted

SpecPost == InitPost /\ [][NextPost]_vars

(***************************************************************************)
(* Claims about post_redirect                                              *)
(***************************************************************************)
\* the requests post_redirect can send: root, sub-path of the root, payload
PostTriples ==
    {t \in (1..Len(SyncRoots)) \X (1..2) \X (1..Len(s_payloads)) :
        t[2] <= Len(SyncEndpoints[t[1]])}

\* roots first, then the sub-paths of the root, then the payloads
TripleBefore(a, b) ==
    \/ a[1] < b[1]
    \/ a[1] = b[1] /\ a[2] < b[2]
    \/ a[1] = b[1] /\ a[2] = b[2] /\ a[3] < b[3]

\* the i-th request sent is the i-th of that order
PostedInOrder ==
    \A i \in 1..Len(s_posted) :
        /\ s_posted[i] \in PostTriples
        /\ Cardinality({t \in PostTriples : TripleBefore(t, s_posted[i])}) = i - 1

\* C19: post_redirect sends its requests in the order roots, sub-paths of the
\* root, payloads; it sends no request after the first 2xx answer that holds
\* a redirect id; with no such answer it returns failure with the diagnostic
\* of the last attempt, after all requests were sent.
C19_PostsInOrderUntilId ==
    [][/\ PostedInOrder'
       /\ s_identified > 0 => s_posted' = s_posted
       /\ (s_pc = "post" /\ s_pc' = "save") =>
             IF s_identified' > 0 THEN s_out'.ok
             ELSE /\ ~s_out'.ok
                  /\ Len(s_posted') = Cardinality(PostTriples)
                  /\ s_out'.msg.kind \in {"exception", "http_error", "no_id"}
                  /\ s_out'.msg.url = SyncUrls[s_at[1]][s_at[2]]]_vars

\* C20: within one call of post_redirect at most one request is answered
\* with a 2xx status.
C20_AtMostOneAccepted == s_accepted <= 1


(***************************************************************************)
(* Specification SpecDotGet: one call of dot_get on a document and a path  *)
(***************************************************************************)
GetInner == MapV(<< <<Chars("b"), IntV(2)>> >>)
GetDocs ==
    { MapV(<<>>),
      MapV(<< <<Chars("a"), IntV(1)>> >>),
      MapV(<< <<Chars("a"), NoneV>> >>),
      MapV(<< <<Chars("a"), GetInner>> >>),
      MapV(<< <<Chars("a"), ListV(<<IntV(1), GetInner>>)>> >>),
      MapV(<< <<Chars("a"), MapV(<<>>)>>, <<Chars("1"), StrV(Chars("x"))>> >>),
      ListV(<<GetInner, IntV(3)>>),
      StrV(Chars("ab")),
      NoneV }

GetPaths ==
    { NoneV, IntV(1) }
    \cup { StrV(Chars(p)) :
             p \in { "", " ", ".", "a", " a ", "b", "a.b", "a..b", "a.b.c", "a.0",
                     "a.1.b", "a.2", "a.-1", "a.x", "0.b", "1", "+1" } }

InitDotGet ==
    /\ c_data \in GetDocs
    /\ c_path \in GetPaths
    /\ c_out = <<>>
    /\ c_pc = "call"
    /\ RootsIdle
    /\ FlatIdle
    /\ FetchIdle
    /\ UpdIdle
    /\ SyncIdle

CallDotGet ==
    /\ c_pc = "call"
    /\ c_out' = dot_get(c_data, c_path)
    /\ c_pc' = "returned"
    /\ UNCHANGED <<c_data, c_path, rootsVars, flatVars, fetchVars, updVars, syncVars>>

NextDotGet == CallDotGet

SpecDotGet == InitDotGet /\ [][NextDotGet]_vars

(***************************************************************************)
(* Claims about dot_get                                                    *)
(***************************************************************************)
RECURSIVE SegmentsResolve(_, _)
\* every segment in turn (trimmed, empty segments of a longer path skipped)
\* names a key of the map it is applied to, or an index within the list it
\* is applied to
SegmentsResolve(cur, segs) ==
    IF segs = <<>> THEN TRUE
    ELSE LET seg == StripWs(Head(segs))
         IN  IF seg = <<>> THEN SegmentsResolve(cur, Tail(segs))
             ELSE IF IsMap(cur)
             THEN /\ DHas(cur.m, seg)
                  /\ SegmentsResolve(DGet(cur.m, seg), Tail(segs))
             ELSE IF IsList(cur)
             THEN /\ IsIntLiteral(seg)
                  /\ 0 <= IntOf(seg)
                  /\ IntOf(seg) < Len(cur.l)
                  /\ SegmentsResolve(cur.l[IntOf(seg) + 1], Tail(segs))
             ELSE FALSE

EmptyPath == c_path = NoneV \/ c_path = StrV(<<>>)

\* C11: dot_get yields None for an empty path, for a null path and for any
\* path with a segment that does not resolve, on every document.
C11_UnresolvedIsNone ==
    (c_pc = "returned"
       /\ (EmptyPath \/ ~SegmentsResolve(c_data, Split(PyStr(c_path), "."))))
    => c_out = NoneV


(***************************************************************************)
(* Specification SpecExtract: one call of extract_items on a payload       *)
(***************************************************************************)
Rec(n) == MapV(<< <<Chars("a"), IntV(n)>> >>)

\* what a payload may hold under 'list', under 'items' and under 'other'
ListChoices ==
    { ListV(<<>>), ListV(<<Rec(1)>>), ListV(<<Rec(1), Rec(2)>>), ListV(<<Rec(1), IntV(5)>>),
      ListV(<<IntV(5), Rec(1)>>), StrV(Chars("x")) }
ItemsChoices == { ListV(<<Rec(3)>>) }
OtherChoices ==
    { StrV(Chars("x")), ListV(<<Rec(4)>>), ListV(<<Rec(4), NoneV>>),
      MapV(<< <<Chars("data"), ListV(<<Rec(5)>>)>> >>),
      MapV(<< <<Chars("meta"), MapV(<<>>)>> >>) }

\* the dict holding the chosen values (None: key absent), keys in this order
\* or in the reverse order
ExtractMap(list, items, other, reversed) ==
    LET present == SelectSeq(<< <<Chars("other"), other>>, <<Chars("list"), list>>,
                                <<Chars("items"), items>> >>,
                             LAMBDA kv : kv[2] # NoneV)
    IN  MapV(IF reversed
             THEN [i \in 1..Len(present) |-> present[Len(present) + 1 - i]]
             ELSE present)

ExtractPayloads ==
    { ExtractMap(list, items, other, reversed) :
        list \in ListChoices \cup {NoneV}, items \in ItemsChoices \cup {NoneV},
        other \in OtherChoices \cup {NoneV}, reversed \in BOOLEAN }
    \cup ListChoices
    \cup { NoneV, IntV(1), ListV(<<IntV(1), StrV(Chars("x"))>>) }

InitExtract ==
    /\ c_data \in ExtractPayloads
    /\ c_path = <<>>
    /\ c_out = <<>>
    /\ c_pc = "call"
    /\ RootsIdle
    /\ FlatIdle
    /\ FetchIdle
    /\ UpdIdle
    /\ SyncIdle

CallExtractItems ==
    /\ c_pc = "call"
    /\ c_out' = extract_items(c_data)
    /\ c_pc' = "returned"
    /\ UNCHANGED <<c_data, c_path, rootsVars, flatVars, fetchVars, updVars, syncVars>>

NextExtract == CallExtractItems

SpecExtract == InitExtract /\ [][NextExtract]_vars

(***************************************************************************)
(* Claims about extract_items                                              *)
(***************************************************************************)
IsNonEmptyListOfMaps(v) ==
    IsList(v) /\ v.l # <<>> /\ \A i \in 1..Len(v.l) : IsMap(v.l[i])

RECURSIVE HoldsListOfMaps(_)
\* some value of the map v, at any depth, is a non-empty list of maps
HoldsListOfMaps(v) ==
    /\ IsMap(v)
    /\ \E i \in 1..Len(v.m) :
          IsNonEmptyListOfMaps(v.m[i][2]) \/ HoldsListOfMaps(v.m[i][2])

\* the priority keys of the map payload that hold a non-empty list of maps
PriorityHits ==
    {i \in 1..Len(ENVELOPE_KEYS) :
        /\ DHas(c_data.m, ENVELOPE_KEYS[i])
        /\ IsNonEmptyListOfMaps(DGet(c_data.m, ENVELOPE_KEYS[i]))}

\* C12: extract_items returns a list payload with only its map elements
\* kept; for a map payload, the value of the first key in the priority order
\* that holds a non-empty list of maps; and the empty list for a payload in
\* which no list of maps can be found.
C12_ExtractItems ==
    c_pc = "returned" =>
        /\ IsList(c_data) => c_out = SelectSeq(c_data.l, IsMap)
        /\ (IsMap(c_data) /\ PriorityHits # {}) =>
              c_out = DGet(c_data.m,
                           ENVELOPE_KEYS[CHOOSE i \in PriorityHits :
                                            \A j \in PriorityHits : i <= j]).l
        /\ (~IsList(c_data) /\ ~HoldsListOfMaps(c_data)) => c_out = <<>>


(***************************************************************************)
(* Specification SpecEditable: one call of is_editable_product_field       *)
(***************************************************************************)
PrefixNames ==
    { "main_image", "children", "images", "attachments", "variants", "links", "stats",
      "reviews" }

EditKeys ==
    { Chars(p) : p \in PrefixNames }
    \cup { Chars(p) \o Chars(".url") : p \in PrefixNames }
    \cup { Chars(p) \o Chars(".0.name") : p \in PrefixNames }
    \cup { Chars(p) \o Chars("x") : p \in PrefixNames }
    \cup { Chars(k) : k \in
             { "stock.price", "id", "translations.pl_PL.name", "custom_field_123",
               "name", "code", "product_id", "stock.stock_id", "stock.foo", "date_x",
               "calculated_foo", "system_x", "auto_x", "comp_x", "foo_id", "Images.0",
               ".images.", "MAIN_IMAGE.url", "translations.en_US.foo", "attributes.12",
               "category_id", "additional_gtu", "stock.price.", "foo.bar", "",
               "stock.gfx_id", "gfx_id", "producer_id", "stock.delivery_id" } }

InitEditable ==
    /\ c_data = <<>>
    /\ c_path \in EditKeys
    /\ c_out = <<>>
    /\ c_pc = "call"
    /\ RootsIdle
    /\ FlatIdle
    /\ FetchIdle
    /\ UpdIdle
    /\ SyncIdle

CallIsEditable ==
    /\ c_pc = "call"
    /\ c_out' = is_editable_product_field(c_path)
    /\ c_pc' = "returned"
    /\ UNCHANGED <<c_data, c_path, rootsVars, flatVars, fetchVars, updVars, syncVars>>

NextEditable == CallIsEditable

SpecEditable == InitEditable /\ [][NextEditable]_vars

(***************************************************************************)
(* Claims about is_editable_product_field                                  *)
(***************************************************************************)
\* the key is a read-only prefix or nested under one
UnderReadOnlyPrefix(key) ==
    \E p \in PrefixNames : key = Chars(p) \/ StartsWith(key, Chars(p) \o DOT)

\* C13: stock.price, translations.pl_PL.name and custom_field_123 are
\* editable, id and main_image.url are not; every path equal to or nested
\* under one of the read-only prefixes main_image, children, images,
\* attachments, variants, links, stats, reviews is not editable; a path no
\* read-only rule names and that contains no system token is editable.
C13_Verdicts ==
    c_pc = "returned" =>
        /\ c_path = Chars("stock.price") => c_out = TRUE
        /\ c_path = Chars("id") => c_out = FALSE
        /\ c_path = Chars("main_image.url") => c_out = FALSE
        /\ c_path = Chars("translations.pl_PL.name") => c_out = TRUE
        /\ c_path = Chars("custom_field_123") => c_out = TRUE
        /\ UnderReadOnlyPrefix(c_path) => c_out = FALSE
        /\ (/\ ~UnderReadOnlyPrefix(Lower(Strip(c_path, ".")))
            /\ ~is_readonly_product_key(c_path)
            /\ \A kw \in system_keywords : ~Contains(Lower(c_path), kw))
           => c_out = TRUE


(***************************************************************************)
(* Claims about sync_redirect_rule                                         *)
(***************************************************************************)
\* the remote list holds an entry that matches the resolved rule, as
\* was_redirect_created decides it
Listed ==
    /\ s_pc # "start"
    /\ s_payloads # <<>>
    /\ was_redirect_created(s_remote, s_source, s_target, IntV(s_target_type),
                            s_target_object_id).exists

SyncEnded == s_pc \in {"returned", "raised"}

\* C4: when the remote already lists an entry matching the rule (same
\* normalized source path and same target), a run of sync_redirect_rule
\* sends no POST, leaves the remote list unchanged and returns synced.
C4_NeverRecreatesListed ==
    [][Listed => /\ s_posted' = s_posted
                 /\ s_remote' = s_remote
                 /\ s_pc' \in {"returned", "raised"} =>
                        /\ s_pc' = "returned"
                        /\ s_result'.ok
                        /\ s_result'.level = "success"]_vars

\* C5: every run of sync_redirect_rule ends by returning one of synced,
\* warning, error: synced (ok true) exactly when post_redirect had a create
\* accepted and the remote list then holds a matching entry, warning (ok
\* false) exactly when a create was accepted and no listed entry matches, and
\* error (ok false) otherwise.
C5_EndsInOneTerminalState ==
    SyncEnded =>
        /\ s_pc = "returned"
        /\ s_result.level \in {"success", "warning", "error"}
        /\ s_result.level = "success" <=> (s_out.ok /\ Listed)
        /\ s_result.level = "warning" <=> (s_out.ok /\ ~Listed)
        /\ s_result.ok <=> s_result.level = "success"

(***************************************************************************)
(* Claims about the save of sync_redirect_rule                             *)
(***************************************************************************)
\* the id post_redirect found in the accepted answer
CreatedId == PyStr(Get(s_out.js.m, REDIRECT_ID))

HasTypedId ==
    \/ rule.rule_type = PRODUCT_TO_URL /\ rule.product_id \notin {NoneV, IntV(0)}
    \/ rule.rule_type = CATEGORY_TO_URL /\ rule.category_id \notin {NoneV, IntV(0)}

\* no explicit source and no id to guess it from
SourceUnresolvable == StripWs(rule.source_url) = <<>> /\ ~HasTypedId

\* a product or category rule without its id
TypedIdMissing == rule.rule_type \in {PRODUCT_TO_URL, CATEGORY_TO_URL} /\ ~HasTypedId

\* C22: when the source cannot be resolved, or a product/category rule lacks
\* its id, sync_redirect_rule returns an error, sends no create request and
\* leaves every stored field of the rule as it was.
C22_EarlyErrorTouchesNothing ==
    [][(s_pc = "start" /\ (SourceUnresolvable \/ TypedIdMissing)) =>
          /\ s_pc' = "returned"
          /\ ~s_result'.ok
          /\ s_result'.level = "error"
          /\ s_posted' = <<>>
          /\ s_remote' = s_remote
          /\ saved' = saved
          /\ rule' = rule]_vars

\* a product rule with a source but no product id was turned down
C22_Witness ==
    /\ s_pc = "returned"
    /\ s_result.message = "product_id_required"
    /\ rule.source_url = Chars("/old")
    /\ s_posted = <<>>
    /\ saved = rule
    /\ saved.last_sync_at = 0

(***************************************************************************)
(* Specification SpecCreated: one call of was_redirect_created on a        *)
(* listing of up to two entries                                            *)
(***************************************************************************)
ListedEntries ==
    { ListedOwn,
      ListedProduct,
      MapV(<< <<Chars("route"), StrV(Chars("/old"))>>, <<Chars("type"), StrV(Chars("0"))>>,
              <<Chars("target"), StrV(Chars("/other"))>> >>),
      MapV(<< <<Chars("route"), StrV(Chars("http://x/old"))>>,
              <<Chars("target"), StrV(Chars("/new//"))>> >>),
      MapV(<< <<Chars("route"), StrV(Chars("/else"))>>, <<Chars("type"), StrV(Chars("0"))>>,
              <<Chars("target"), StrV(Chars("/new"))>> >>),
      MapV(<< <<Chars("route"), StrV(Chars("/old"))>>, <<Chars("type"), IntV(1)>>,
              <<Chars("object_id"), IntV(9)>> >>),
      MapV(<< <<Chars("route"), StrV(Chars("/old"))>>, <<Chars("type"), StrV(Chars("2"))>>,
              <<Chars("object_id"), StrV(Chars("3"))>> >>) }

Listings ==
    {<<>>} \cup {<<a>> : a \in ListedEntries}
           \cup {<<a, b>> : a \in ListedEntries, b \in ListedEntries}

\* source, target, target type and target object id as sync_redirect_rule
\* passes them
Intent(source, target, target_type, target_object_id) ==
    [source |-> source, target |-> target, target_type |-> IntV(target_type),
     target_object_id |-> target_object_id]

Intents ==
    { Intent(Chars("/old"), Chars("/new"), OWN, NoneV),
      Intent(Chars("/old"), <<>>, OWN, NoneV),
      Intent(Chars("/old"), Chars("/p7"), PRODUCT, IntV(7)),
      Intent(Chars("/old"), Chars("/category/3"), CATEGORY, IntV(3)) }

InitCreated ==
    /\ c_data \in Listings
    /\ c_path \in Intents
    /\ c_out = <<>>
    /\ c_pc = "call"
    /\ RootsIdle
    /\ FlatIdle
    /\ FetchIdle
    /\ UpdIdle
    /\ SyncIdle

CallWasCreated ==
    /\ c_pc = "call"
    /\ c_out' = was_redirect_created(c_data, c_path.source, c_path.target,
                                     c_path.target_type, c_path.target_object_id)
    /\ c_pc' = "returned"
    /\ UNCHANGED <<c_data, c_path, rootsVars, flatVars, fetchVars, updVars, syncVars>>

NextCreated == CallWasCreated

SpecCreated == InitCreated /\ [][NextCreated]_vars

\* the entry has the source of the intent and either its literal target or
\* its target type with its target object id
EntryMatches(it, intent) ==
    LET r == parse_remote_redirect(it.m)
        want_tgt == _norm_path(StrV(intent.target))
    IN  /\ _norm_path(r.source) = _norm_path(StrV(intent.source))
        /\ \/ want_tgt # <<>> /\ _norm_path(r.target) = want_tgt
           \/ /\ intent.target_object_id # NoneV
              /\ r.target_type = intent.target_type
              /\ r.target_object_id = intent.target_object_id

\* C23: was_redirect_created reports the intent as present exactly when an
\* entry of the listing has the same normalized source and either the same
\* non-empty normalized target or the same target type and target object id;
\* a URL intent is not present because of an entry with another target.
C23_PresentIffEntryMatches ==
    c_pc = "returned" =>
        (c_out.exists <=> \E i \in 1..Len(c_data) : EntryMatches(c_data[i], c_path))

(***************************************************************************)
(* Specification SpecNorm: one call of _norm_path on a string              *)
(***************************************************************************)
NormHeads ==
    { <<>>, Chars("/"), Chars("//"), Chars(" "), Chars("http://x"), Chars("http://x/"),
      Chars("https://x/"), Chars("http://x//"), Chars("HTTP://x/") }

NormTails ==
    { <<>>, Chars("a"), Chars("a/"), Chars("a//"), Chars("a///"), Chars("a/b"),
      Chars("a?q=1") }

NormInputs == {h \o t : h \in NormHeads, t \in NormTails}

InitNorm ==
    /\ c_data \in NormInputs
    /\ c_path = <<>>
    /\ c_out = <<>>
    /\ c_pc = "call"
    /\ RootsIdle
    /\ FlatIdle
    /\ FetchIdle
    /\ UpdIdle
    /\ SyncIdle

CallNormPath ==
    /\ c_pc = "call"
    /\ c_out' = _norm_path(StrV(c_data))
    /\ c_pc' = "returned"
    /\ UNCHANGED <<c_data, c_path, rootsVars, flatVars, fetchVars, updVars, syncVars>>

NextNorm == CallNormPath

SpecNorm == InitNorm /\ [][NextNorm]_vars

\* the input, stripped, is a full URL
FullUrl(s) ==
    \/ StartsWith(StripWs(s), Chars("http://"))
    \/ StartsWith(StripWs(s), Chars("https://"))

\* C24: for a non-empty input _norm_path returns a path without scheme and
\* host when the input was a full http(s) URL; the path begins with exactly
\* one '/' and does not end with two or more slashes.
C24_NormalizedPath ==
    (c_pc = "returned" /\ c_data # <<>>) =>
        /\ FullUrl(c_data) => (~Contains(c_out, Chars("://")) /\ ~Contains(c_out, Chars("x")))
        /\ Len(c_out) >= 1
        /\ c_out[1] = "/"
        /\ Len(c_out) >= 2 => c_out[2] # "/"
        /\ ~EndsWith(c_out, <<"/", "/">>)

(***************************************************************************)
(* Claims about the order of the rules of is_editable_product_field        *)
(***************************************************************************)
\* the path is an entry of the read-only set
ExactReadOnly(k) == k \in _READONLY_PRODUCTS_EXACT

\* the path is one of the read-only prefixes in force, or nested under one
UnderPrefixInForce(k) ==
    \E pref \in _READONLY_PRODUCTS_PREFIXES : k = pref \/ StartsWith(k, pref \o DOT)

\* C25: a path that equals a read-only entry or lies under a read-only
\* prefix is not editable, also when it is in the documented editable set; a
\* path of the documented editable set that neither equals a read-only entry
\* nor lies under a read-only prefix is editable, also when it holds a system
\* token such as '_id'.
C25_RuleOrder ==
    c_pc = "returned" =>
        LET k == Lower(Strip(c_path, "."))
        IN  /\ (ExactReadOnly(k) \/ UnderPrefixInForce(k)) => c_out = FALSE
            /\ (/\ k \in _EDITABLE_PRODUCTS_FIELDS
                /\ ~ExactReadOnly(k)
                /\ ~UnderPrefixInForce(k)) => c_out = TRUE

(***************************************************************************)
(* Claims about the fields update_product leaves out                       *)
(***************************************************************************)
\* the flat keys of the caller's payload
RequestedKeys == {kv[1] : kv \in Range(flatten(MapV(u_payload), <<>>))}

\* the requested fields the policy turns down
RemovedKeys == {k \in RequestedKeys : ~is_editable_product_field(k)}

\* C26: update_product leaves every requested field that fails the policy
\* out of the bodies it sends, names each of them in the validation notes of
\* the outcome, and does not report a failure because they were requested.
C26_RemovedFieldsNoted ==
    u_pc \notin {"idle", "perm", "validate"} =>
        /\ \A i \in 1..Len(u_sent) :
              \A kv \in Range(flatten(u_sent[i].body, <<>>)) :
                 \A k \in RemovedKeys : kv[1] # k /\ ~EndsWith(kv[1], DOT \o k)
        /\ \A k \in RemovedKeys : \E i \in 1..Len(u_errors) : Contains(u_errors[i], k)
        /\ (RemovedKeys # {} /\ RemovedKeys = RequestedKeys) => u_ret.kind # "no_valid_fields"

(***************************************************************************)
(* Claims about the values update_product sends                            *)
(***************************************************************************)
RECURSIVE PayloadLeaves(_, _)
\* the fields of the caller's payload: dotted path and value, a value being
\* a scalar, a list or an empty map
PayloadLeaves(value, prefix) ==
    IF IsMap(value) /\ value.m # <<>>
    THEN UNION { PayloadLeaves(kv[2], flat_key(prefix, kv[1])) : kv \in Range(value.m) }
    ELSE {[path |-> prefix, value |-> value]}

\* the payload inside a request body
BodyPayload(sent) ==
    IF sent.label = "PUT product envelope" THEN Get(sent.body.m, Chars("product"))
    ELSE sent.body

\* C27: every write request body carries, at the path of each field of the
\* caller's payload that the policy classifies as editable, the value the
\* caller gave, unchanged in type and content (attributes aside, which are
\* also tested for existence).
C27_ValuesSentUnchanged ==
    \A i \in 1..Len(u_sent) :
       \A leaf \in PayloadLeaves(MapV(u_payload), <<>>) :
          (is_editable_product_field(leaf.path) /\ ~StartsWith(leaf.path, ATTRIBUTES))
          => dot_get(BodyPayload(u_sent[i]), StrV(leaf.path)) = leaf.value

(***************************************************************************)
(* Specification SpecRace: two calls of update_product that write          *)
(* stock.price of the same product, interleaved at every request           *)
(***************************************************************************)
RaceValues == { IntV(10), IntV(9), FloatV(125, 1), StrV(Chars("abc")) }

Callers == {1, 2}

\* the payload of the call that writes v
RacePayload(v) == <<<<Chars("stock"), MapV(<<<<PRICE, v>>>>)>>>>

\* the record the remote shows on a re-read
RaceRecord ==
    MapV(<< <<Chars("id"), ProductId>>,
            <<Chars("stock"), MapV(<<<<PRICE, c_data.value>>>>)>> >>)

\* c_path: the value each call writes; c_data: stock.price of the remote
\* record and the call that wrote it last; c_out: validated payload, attempt,
\* re-read record, writer of the re-read value and outcome of each call
InitRace ==
    /\ c_path \in {w \in RaceValues \X RaceValues : w[1] # w[2]}
    /\ c_data = [value |-> IntV(1), by |-> 0]
    /\ c_out = [i \in Callers |->
                   [validated |-> <<>>, attempt |-> 1, read |-> NoneV, seen_by |-> 0,
                    ret |-> [ok |-> FALSE, kind |-> "none"]]]
    /\ c_pc = [i \in Callers |-> "validate"]
    /\ RootsIdle
    /\ FlatIdle
    /\ FetchIdle
    /\ UpdIdle
    /\ SyncIdle

\* validate_product_payload of call i
RaceValidate(i) ==
    /\ c_pc[i] = "validate"
    /\ c_out' = [c_out EXCEPT ![i].validated =
                     validate_product_payload(RacePayload(c_path[i]), {}).cleaned_payload]
    /\ c_pc' = [c_pc EXCEPT ![i] = "write"]
    /\ UNCHANGED <<c_data, c_path, rootsVars, flatVars, fetchVars, updVars, syncVars>>

\* one pass of the loop over attempts of call i; an accepted write stores
\* the value, as written or as a string
RaceWrite(i) ==
    /\ c_pc[i] = "write"
    /\ \E out \in WriteOutcomes, as_string \in BOOLEAN :
         LET a == attempts(c_out[i].validated)[c_out[i].attempt]
             detail == [label |-> a.label, code |-> out.code]
             accepted == out.kind = "status" /\ out.code \in OK_STATUSES
             Returned(ret) ==
                 /\ c_out' = [c_out EXCEPT ![i].ret = ret]
                 /\ c_pc' = [c_pc EXCEPT ![i] = "returned"]
         IN  /\ as_string => accepted
             /\ c_data' = IF accepted
                          THEN [value |-> IF as_string THEN StrV(PyStr(c_path[i]))
                                          ELSE c_path[i],
                                by |-> i]
                          ELSE c_data
             /\ IF out.kind = "exception"
                THEN Returned(Ret(FALSE,
                                  IF out.exc = "Timeout" THEN "timeout"
                                  ELSE IF out.exc = "ConnectionError"
                                  THEN "connection_error" ELSE "unexpected_error",
                                  <<>>, FALSE, <<>>, NoDetail))
                ELSE IF accepted
                THEN /\ c_pc' = [c_pc EXCEPT ![i] = "reread"]
                     /\ UNCHANGED c_out
                ELSE IF \/ out.code \in FATAL_STATUSES
                        \/ c_out[i].attempt = Len(attempts(c_out[i].validated))
                THEN Returned(Ret(FALSE, "rejected", <<>>, FALSE, <<>>, detail))
                ELSE /\ c_out' = [c_out EXCEPT ![i].attempt = @ + 1]
                     /\ UNCHANGED c_pc
    /\ UNCHANGED <<c_path, rootsVars, flatVars, fetchVars, updVars, syncVars>>

\* fetch_item of call i: the record as it is now, or None
RaceReread(i) ==
    /\ c_pc[i] = "reread"
    /\ \E found \in BOOLEAN :
         c_out' = [c_out EXCEPT ![i].read = IF found THEN RaceRecord ELSE NoneV,
                                ![i].seen_by = IF found THEN c_data.by ELSE 0]
    /\ c_pc' = [c_pc EXCEPT ![i] = "verify"]
    /\ UNCHANGED <<c_data, c_path, rootsVars, flatVars, fetchVars, updVars, syncVars>>

\* the verification of call i and its return
RaceVerify(i) ==
    /\ c_pc[i] = "verify"
    /\ \E flat_payload \in {flatten(MapV(c_out[i].validated), <<>>)} :
         \E changes_failed \in {IF Truthy(c_out[i].read)
                                THEN changes_failed_of(c_out[i].read, flat_payload)
                                ELSE <<>>} :
            LET quoted == SubSeq(changes_failed, 1,
                                 IF Len(changes_failed) < MAX_QUOTED
                                 THEN Len(changes_failed) ELSE MAX_QUOTED)
                ret == IF changes_failed # <<>>
                       THEN Ret(TRUE, "partial", quoted,
                                price_hint(c_out[i].read, flat_payload, changes_failed),
                                <<>>, NoDetail)
                       ELSE Ret(TRUE, "confirmed", <<>>, FALSE, <<>>, NoDetail)
            IN  c_out' = [c_out EXCEPT ![i].ret = ret]
    /\ c_pc' = [c_pc EXCEPT ![i] = "returned"]
    /\ UNCHANGED <<c_data, c_path, rootsVars, flatVars, fetchVars, updVars, syncVars>>

NextRace ==
    \E i \in Callers :
        \/ RaceValidate(i)
        \/ RaceWrite(i)
        \/ RaceReread(i)
        \/ RaceVerify(i)

SpecRace == InitRace /\ [][NextRace]_vars

\* the re-read of call i showed the value the other call wrote
Overwritten(i) == c_out[i].seen_by \in Callers \ {i}

C30_OnlyMapsReturned ==
    c_pc = "returned" => \A i \in 1..Len(c_out) : IsMap(c_out[i])

=============================================================================
